---- MODULE Spec2Model ----
(***************************************************************************)
(* A model of libbitcoin-database: the data_base write coordinator          *)
(* (src/src/data_base.cpp), the transaction database                        *)
(* (src/src/databases/transaction_database.cpp) and the slab/record hash    *)
(* tables (src/include/bitcoin/database/impl/*_hash_table.ipp).             *)
(*                                                                          *)
(* The module holds several specifications over one set of variables:      *)
(*   Spec       the coordinator: writers, write_mutex_ and the flush lock   *)
(*   SpecTable  one hash table with concurrent store / find / unlink        *)
(*   SpecMeta   the metadata_mutex_ protocol of get / confirm               *)
(*   SpecChain  the sub-databases under sequential block push and pop       *)
(*   SpecStore  the coordinator, a stop of the process and the reopening     *)
(*   SpecCalls  writer calls one after another on the sub-databases         *)
(*   SpecRecords calls on the transaction database alone                    *)
(*   SpecSteps  push(block, height) one write at a time                     *)
(*   SpecPushAll the parallel push of the blocks of a block reorganize      *)
(*   SpecBase   create, open and close of the data_base                     *)
(*   SpecFile   reserve on a memory-mapped file (mmfile.cpp)                *)
(* Each specification leaves the variables of the others unchanged.         *)
(***************************************************************************)
EXTENDS Integers, Sequences, FiniteSets, TLC

(***************************************************************************)
(* Bounds of the model.                                                     *)
(***************************************************************************)
\* Caller threads of the coordinator.
NumThreads == 2
\* Highest block or header height a push may reach.
MaxHeight == 1
\* Longest incoming list of a reorganize.
MaxIncoming == 1
\* Most transactions of a pushed block.
MaxTxs == 3
\* Bucket tasks of failed block pushes that may still be running.
MaxStale == 1
\* Threads calling into one hash table.
NumWorkers == 2
\* Rows a hash table file has room for.
MaxRows == 3
\* Keys stored in a hash table: 0 .. NumKeys - 1.
NumKeys == 3
\* Payload values: 1 .. MaxValue.
MaxValue == 1
\* Threads reading or confirming one transaction record.
NumClients == 2
\* Highest block height a transaction record is confirmed at.
MaxConfirm == 2

\* Blocks pushed above the chain the store starts with.
MaxBlocks == 2
\* Transactions of a pushed block, its coinbase included.
MaxBlockTxs == 3
\* The highest height the calls of SpecCalls raise an index to.
MaxTop == 2
\* The most slabs the calls of SpecCalls leave in the transaction database.
MaxSlabs == 6
\* The most calls of a run of SpecCalls.
MaxCalls == 3
\* Most calls made on the transaction database in a run of its own.
MaxOps == 3
\* Most incoming blocks of a block reorganize on the sub-databases.
MaxPushed == 2
\* settings_.cache_capacity: the outputs the unspent-output cache holds.
cache_capacity == 4

(***************************************************************************)
(* Program constants.                                                       *)
(***************************************************************************)
\* dispatch.size(): the threads of the dispatcher's pool (settings of the node).
DispatchThreads == 2
\* max_size_t, the bound of the overflow guard of reorganize; size_t is
\* modelled 31 bits wide, the widest TLC's integers allow.
max_size_t == 2147483647
\* max_uint32, the empty sentinel of a record hash table, at the same width.
max_uint32 == 2147483647
\* transaction_result::unconfirmed (max_uint16), the position of a transaction
\* that is in no block.
unconfirmed == 65535
\* rule_fork::unverified, the fork set stored as the height of a pooled
\* transaction: a value no block height takes.
unverified == max_uint32 - 1
\* header_.size(): the buckets of the hash table header (a setting of the store).
Buckets == 2

Threads == 1..NumThreads
Heights == 0..MaxHeight
\* Fork point heights a caller may pass, max_size_t included.
ForkHeights == Heights \cup {max_size_t}

VARIABLES
    \* ---- coordinator (data_base) ----
    write_mutex,     \* data_base::write_mutex_: 0 when free, else the writer holding it
    flush_lock,      \* TRUE when the flush-lock sentinel file exists
    top,             \* top[index]: top height of the header / block index, -1 when empty
    thread,          \* thread[t]: the call thread t is executing and its position
    sync,            \* sync[t]: the bc::synchronize join of the block being pushed
    stale,           \* bucket tasks still running after their block push failed
    writing,         \* writing[t]: t's write is between begin_write and end_write
    aborted,         \* a write returned a failure after begin_write succeeded
    handled,         \* handled[t]: invocations of the caller's handler in t's reorganize
    handler_locked   \* handler_locked[t]: a handler ran while t's reorganize held write_mutex

VARIABLES
    \* ---- one slab or record hash table ----
    kind,            \* "slab" or "record"
    header,          \* header[b]: position of the first row of bucket b, or empty
    rows,            \* the rows of the file in allocation order: key, value, next
    mutex,           \* the table's mutex_: 0 when free, else the worker holding it
    worker,          \* worker[w]: the table call worker w is executing
    linked,          \* positions of the stored rows in the order store linked them,
                     \* less for each unlink(key) the latest row of that key
    wild             \* an unlink read the row at the empty sentinel

coordVars == <<write_mutex, flush_lock, top, thread, sync, stale, writing,
               aborted, handled, handler_locked>>

VARIABLES
    \* ---- the metadata of one linked transaction record ----
    metadata_mutex,  \* transaction_database::metadata_mutex_: exclusive owner and shared holders
    triple,          \* the height, position and state fields of the record
    client,          \* client[c]: the call client c is executing and what it has read
    during           \* during[c]: the triples the record was given while c's call ran

VARIABLES
    \* ---- the sub-databases under sequential push and pop of blocks ----
    index_addresses, \* settings_.index_addresses
    transactions,    \* the slabs of the transaction database in storage order
    blocks,          \* the block index: blocks[h + 1] holds the tx offsets of height h
    spends,          \* the rows of the spend database in storage order
    history,         \* history[a]: the rows of address a, the last added last
    chain,           \* the run: its phase, the store it began with, a lost write
    indexes,         \* indexes[i]: the hashes of the header / block index by height
    call,            \* the last writer call made on the store: arguments and code
    cache            \* transaction_database::cache_: the outputs held, the oldest first

VARIABLES
    \* ---- the process that has the store open ----
    process,         \* whether it runs, has stopped, or has reopened the store
    base,            \* the data_base object: closed_, the store lock, the open
                     \* sub-databases and the callers of close()
    file             \* a memory-mapped file: size_, its mapping, the last call

tableVars == <<kind, header, rows, mutex, worker, linked, wild>>

metaVars == <<metadata_mutex, triple, client, during>>

chainVars == <<index_addresses, transactions, blocks, spends, history, chain,
               indexes, call, cache>>

storeVars == <<process, base, file>>

vars == <<coordVars, tableVars, metaVars, chainVars, storeVars>>

(***************************************************************************)
(* data_base: state after create(genesis): both indexes hold height 0.      *)
(***************************************************************************)
Idle == [op |-> "idle", cur |-> "none", pc |-> "idle", height |-> 0,
         fork |-> 0, incoming |-> 0, index |-> 0, ec |-> "success",
         began |-> FALSE, last |-> "none", txs |-> 0, stored |-> <<>>]

NoSync == [pending |-> {}, counter |-> 0, clearance |-> 0]

\* The coordinator at rest over indexes whose top is height h.
CoordAt(h) ==
    /\ write_mutex = 0
    /\ flush_lock = FALSE
    /\ top = [i \in {"header", "block"} |-> h]
    /\ thread = [t \in Threads |-> Idle]
    /\ sync = [t \in Threads |-> NoSync]
    /\ stale = 0
    /\ writing = [t \in Threads |-> FALSE]
    /\ aborted = FALSE
    /\ handled = [t \in Threads |-> 0]
    /\ handler_locked = [t \in Threads |-> FALSE]

CoordInit == CoordAt(0)

(***************************************************************************)
(* store::begin_write / store::end_write (store.cpp): the flush-lock        *)
(* sentinel is created by a successful begin_write and removed by a         *)
(* successful end_write; a failed call leaves the file system as it was.    *)
(***************************************************************************)
begin_write(ok) == IF ok THEN TRUE ELSE flush_lock

end_write(ok) == IF ok THEN FALSE ELSE flush_lock

code(ok) == IF ok THEN "success" ELSE "operation_failed"

(***************************************************************************)
(* Utilities of data_base.cpp.                                              *)
(***************************************************************************)
\* get_next_block: 0 on an empty index, else top + 1.
get_next_block(i) == IF top[i] = -1 THEN 0 ELSE top[i] + 1

\* verify_top: the index is not empty and its top is the given height.
verify_top(h, i) == code(top[i] # -1 /\ top[i] = h)

\* verify(fork_point, block_index): known says that blocks_.get(hash) finds a
\* block stored at the fork point's height; its state is confirmed when the
\* height is within the block index and indexed when within the header index.
verify(f, block_index, known) ==
    LET is_confirmed == f <= top["block"]
        is_indexed == f <= top["header"]
    IN IF ~known THEN "operation_failed"
       ELSE IF ~is_confirmed /\ (block_index \/ ~is_indexed) THEN "operation_failed"
       ELSE "success"

\* verify_push(header, height) without its height check.
verify_push_header_parent_only(h, parent_ok) ==
    IF ~parent_ok THEN "store_block_missing_parent"
    ELSE "success"

\* verify_push(header, height).
verify_push_header(h, parent_ok) ==
    IF get_next_block("header") # h THEN "store_block_invalid_height"
    ELSE IF ~parent_ok THEN "store_block_missing_parent"
    ELSE "success"

\* verify_push(block, height) with the height checked before the
\* transactions.
verify_push_block_height_first(txs, h, parent_ok) ==
    IF get_next_block("block") # h THEN "store_block_invalid_height"
    ELSE IF txs = 0 THEN "empty_block"
    ELSE IF ~parent_ok THEN "store_block_missing_parent"
    ELSE "success"

\* verify_push(block, height).
verify_push_block(txs, h, parent_ok) ==
    IF txs = 0 THEN "empty_block"
    ELSE IF get_next_block("block") # h THEN "store_block_invalid_height"
    ELSE IF ~parent_ok THEN "store_block_missing_parent"
    ELSE "success"

\* verify_push(tx): duplicate says an unspent tx of the same hash is stored.
verify_push_tx(duplicate) == IF duplicate THEN "unspent_duplicate" ELSE "success"

(***************************************************************************)
(* Control of a thread.  op is the call made by the caller, cur the         *)
(* synchronous writer being executed (the call itself, or one made by a     *)
(* reorganize), pc the position in it.  Steps that touch only what the      *)
(* thread owns (its locals, or data guarded by the write_mutex_ it holds)   *)
(* are taken together with the next step that others can observe.           *)
(***************************************************************************)
At(t, o, p) == thread[t].cur = o /\ thread[t].pc = p

InReorg(t, o, p) == thread[t].op = o /\ thread[t].cur = "none" /\ thread[t].pc = p

\* A step of thread t to position r; the coordinator leaves the hash table
\* of the other specifications alone.
Step(t, r) == thread' = [thread EXCEPT ![t] = r] /\ UNCHANGED <<tableVars, metaVars, chainVars, storeVars>>

\* A reorganize calls the synchronous writer o at height h.
Invoke(s, o, h) == [s EXCEPT !.cur = o, !.pc = "lock", !.height = h]

\* data_base::push_next: the end of the list or an error goes to handle_push,
\* else do_push of blocks[index] at height fork + 1 + index is dispatched.
push_next(s, ec, index) ==
    IF ec # "success" \/ index >= s.incoming
    THEN [s EXCEPT !.pc = "handle_push", !.ec = ec, !.index = index]
    ELSE [s EXCEPT !.pc = "do_push", !.ec = ec, !.index = index,
                   !.height = s.fork + 1 + index]

\* data_base::handle_pop: an error goes to handle_push, success to push_all,
\* which is push_next(success, blocks, 0, fork_height + 1).
handle_pop(s, ec) ==
    IF ec # "success" THEN [s EXCEPT !.pc = "handle_push", !.ec = ec]
    ELSE push_next(s, "success", 0)

\* data_base::push_all (header): push(*next, first_height + index) in list
\* order, up to the first failure; then reorganize calls the handler.
push_all(s, index) ==
    IF index < s.incoming
    THEN Invoke([s EXCEPT !.index = index], "push_header", s.fork + 1 + index)
    ELSE [s EXCEPT !.pc = "finish", !.ec = "success"]

\* The end of pop_above: the block reorganize hands ec to its handler
\* (handle_pop), the header reorganize returns a bool and goes on to push_all.
Popped(s, ec) ==
    IF s.op = "reorganize_block" THEN handle_pop(s, ec)
    ELSE IF ec # "success" THEN [s EXCEPT !.pc = "finish", !.ec = "operation_failed"]
    ELSE push_all(s, 0)

\* The loop of pop_above after pop(*next, height) returned ec:
\* for (height = top; height > fork; --height).
pop_above_loop(s, ec) ==
    IF ec # "success" THEN Popped(s, ec)
    ELSE IF s.height - 1 > s.fork
    THEN Invoke(s, IF s.op = "reorganize_block" THEN "pop_block" ELSE "pop_header",
                s.height - 1)
    ELSE Popped(s, "success")

\* The synchronous writer returns ec: to the caller, or into the loop of the
\* reorganize that called it (pop_above, or push_all of the header reorganize).
Return(s, ec) ==
    IF s.op = s.cur THEN [Idle EXCEPT !.last = s.op, !.ec = ec]
    ELSE IF s.cur = "push_header"
    THEN IF ec # "success"
         THEN [s EXCEPT !.cur = "none", !.pc = "finish", !.ec = "operation_failed"]
         ELSE push_all([s EXCEPT !.cur = "none"], s.index + 1)
    ELSE pop_above_loop([s EXCEPT !.cur = "none"], ec)

\* unique_lock lock(write_mutex_), the preflight (ec) and begin_write (ok):
\* the writer waits for the mutex; a failed preflight or begin_write returns
\* at once, which releases the mutex again.
Enter(t, h, ec, ok) ==
    LET s == thread[t] IN
    /\ s.pc = "lock"
    /\ write_mutex = 0
    /\ IF ec # "success" \/ ~ok
       THEN /\ Step(t, Return(s, IF ec # "success" THEN ec ELSE "operation_failed"))
            /\ UNCHANGED <<write_mutex, flush_lock, writing>>
       ELSE /\ write_mutex' = t
            /\ flush_lock' = begin_write(ok)
            /\ writing' = [writing EXCEPT ![t] = TRUE]
            /\ Step(t, [s EXCEPT !.pc = "body", !.height = h, !.began = TRUE])
    /\ UNCHANGED <<top, sync, stale, aborted, handled, handler_locked>>

\* The height argument: the caller's choice, or the one the reorganize passes.
Arg(t) == IF thread[t].op = thread[t].cur THEN Heights ELSE {thread[t].height}

\* A step of the body returned false: the writer is about to return
\* error::operation_failed, end_write is not called.
Fail(t) ==
    /\ Step(t, [thread[t] EXCEPT !.pc = "failed"])
    /\ writing' = [writing EXCEPT ![t] = FALSE]
    /\ aborted' = TRUE
    /\ UNCHANGED <<write_mutex, flush_lock, top, sync, stale, handled, handler_locked>>

\* return error::operation_failed; the unique_lock releases write_mutex_.
Failed(t, o) ==
    /\ At(t, o, "failed")
    /\ write_mutex' = 0
    /\ Step(t, Return(thread[t], "operation_failed"))
    /\ UNCHANGED <<flush_lock, top, sync, stale, writing, aborted, handled,
                   handler_locked>>

\* return end_write() ? error::success : error::operation_failed; the
\* unique_lock releases write_mutex_.
End(t, o) ==
    /\ At(t, o, "end")
    /\ \E ok \in BOOLEAN :
        /\ flush_lock' = end_write(ok)
        /\ aborted' = (aborted \/ ~ok)
        /\ Step(t, Return(thread[t], code(ok)))
    /\ write_mutex' = 0
    /\ writing' = [writing EXCEPT ![t] = FALSE]
    /\ UNCHANGED <<top, sync, stale, handled, handler_locked>>

(***************************************************************************)
(* Synchronous writers.                                                     *)
(***************************************************************************)
\* A caller of the running process starts one of the synchronous writers.
call_writer(t) ==
    /\ process.state = "running"
    /\ thread[t].op = "idle"
    /\ \E o \in {"push_tx", "push_header", "push_block", "pop_block", "pop_header"} :
        Step(t, [Invoke(Idle, o, 0) EXCEPT !.op = o])
    /\ handled' = [handled EXCEPT ![t] = 0]
    /\ handler_locked' = [handler_locked EXCEPT ![t] = FALSE]
    /\ UNCHANGED <<write_mutex, flush_lock, top, sync, stale, writing, aborted>>

\* data_base::push(const transaction&, uint32_t)
push_tx(t) ==
    \/ /\ thread[t].cur = "push_tx"
       /\ \E duplicate \in BOOLEAN, ok \in BOOLEAN :
            Enter(t, 0, verify_push_tx(duplicate), ok)
    \/ /\ At(t, "push_tx", "body")
       \* transactions_->store(tx, forks, unconfirmed, pooled); transactions_->commit()
       /\ Step(t, [thread[t] EXCEPT !.pc = "end"])
       /\ UNCHANGED <<write_mutex, flush_lock, top, sync, stale, writing, aborted,
                      handled, handler_locked>>
    \/ End(t, "push_tx")

\* data_base::push(const header&, size_t)
push_header(t) ==
    \/ /\ thread[t].cur = "push_header"
       /\ \E h \in Arg(t), parent_ok \in BOOLEAN, ok \in BOOLEAN :
            Enter(t, h, verify_push_header(h, parent_ok), ok)
    \/ /\ At(t, "push_header", "body")
       \* blocks_->store(header, height); blocks_->commit()
       /\ top' = [top EXCEPT !["header"] = thread[t].height]
       /\ Step(t, [thread[t] EXCEPT !.pc = "end"])
       /\ UNCHANGED <<write_mutex, flush_lock, sync, stale, writing, aborted,
                      handled, handler_locked>>
    \/ End(t, "push_header")

\* data_base::push(const block&, size_t)
push_block(t) ==
    \/ /\ thread[t].cur = "push_block"
       /\ \E h \in Arg(t), txs \in 0..MaxTxs, parent_ok \in BOOLEAN, ok \in BOOLEAN :
            Enter(t, h, verify_push_block(txs, h, parent_ok), ok)
    \/ /\ At(t, "push_block", "body")
       /\ \E pushed \in BOOLEAN :
            IF ~pushed
            THEN \* push_transactions returned false
                 Fail(t)
            ELSE \* blocks_->store(block, height); commit()
                 /\ top' = [top EXCEPT !["block"] = thread[t].height]
                 /\ Step(t, [thread[t] EXCEPT !.pc = "end"])
                 /\ UNCHANGED <<write_mutex, flush_lock, sync, stale, writing,
                                aborted, handled, handler_locked>>
    \/ Failed(t, "push_block")
    \/ End(t, "push_block")

\* The shared shape of pop(chain::block&, size_t) and pop(chain::header&, size_t)
\* over the block index and the header index.
pop(t, o, i) ==
    \/ /\ thread[t].cur = o
       /\ \E h \in Arg(t), found \in BOOLEAN, ok \in BOOLEAN :
            \* verify_top, then blocks_->get(height, index) must find the block
            Enter(t, h, IF verify_top(h, i) # "success" THEN verify_top(h, i)
                        ELSE code(found), ok)
    \/ /\ At(t, o, "body")
       /\ \E popped \in BOOLEAN, unconfirm \in BOOLEAN :
            IF ~popped \/ ~unconfirm
            THEN \* pop_transactions or blocks_->unconfirm returned false
                 Fail(t)
            ELSE \* blocks_->unconfirm(height, index); commit()
                 /\ top' = [top EXCEPT ![i] = thread[t].height - 1]
                 /\ Step(t, [thread[t] EXCEPT !.pc = "end"])
                 /\ UNCHANGED <<write_mutex, flush_lock, sync, stale, writing,
                                aborted, handled, handler_locked>>
    \/ Failed(t, o)
    \/ End(t, o)

\* data_base::pop(chain::block&, size_t)
pop_block(t) == pop(t, "pop_block", "block")

\* data_base::pop(chain::header&, size_t)
pop_header(t) == pop(t, "pop_header", "header")

(***************************************************************************)
(* Reorganization.  The caller's handler is a callback: Handler counts its  *)
(* invocations and records whether write_mutex_ was still held by the       *)
(* reorganize that invokes it.                                              *)
(***************************************************************************)
call_reorganize(t) ==
    /\ process.state = "running"
    /\ thread[t].op = "idle"
    /\ \E o \in {"reorganize_block", "reorganize_header"} :
        Step(t, [Idle EXCEPT !.op = o, !.pc = "check"])
    /\ handled' = [handled EXCEPT ![t] = 0]
    /\ handler_locked' = [handler_locked EXCEPT ![t] = FALSE]
    /\ UNCHANGED <<write_mutex, flush_lock, top, sync, stale, writing, aborted>>

\* handler(ec): the reorganize of t is over.
Handler(t, ec) ==
    /\ handled' = [handled EXCEPT ![t] = @ + 1]
    /\ handler_locked' = [handler_locked EXCEPT ![t] = @ \/ write_mutex = t]
    /\ Step(t, [Idle EXCEPT !.ec = ec, !.last = thread[t].op])

\* fork_point.height() > max_size_t - incoming->size()
Overflows(f, n) == f > max_size_t - n

\* data_base::pop_above, for blocks and for headers: verify the fork point,
\* read the top, and pop from the top down to fork + 1 with pop(*next, height).
pop_above(s, known) ==
    LET block_index == s.op = "reorganize_block"
        i == IF block_index THEN "block" ELSE "header"
        ec == verify(s.fork, block_index, known)
    IN IF ec # "success" THEN Popped(s, ec)
       ELSE IF top[i] = -1 THEN Popped(s, "operation_failed")
       ELSE IF top[i] = s.fork THEN Popped(s, "success")
       ELSE IF top[i] < s.fork
       THEN \* depth = top - fork wraps around and reserve(depth) throws
            \* std::length_error out of reorganize: no handler is invoked
            [Idle EXCEPT !.ec = "length_error", !.last = s.op]
       ELSE Invoke(s, IF block_index THEN "pop_block" ELSE "pop_header", top[i])

\* data_base::reorganize (block): overflow guard, write_mutex_.lock(),
\* begin_write(), then pop_above.
reorganize_block(t) ==
    \/ /\ InReorg(t, "reorganize_block", "check")
       /\ \E f \in ForkHeights, n \in 0..MaxIncoming, ok \in BOOLEAN :
            IF Overflows(f, n)
            THEN /\ Handler(t, "operation_failed")
                 /\ UNCHANGED <<write_mutex, flush_lock, writing>>
            ELSE /\ write_mutex = 0
                 /\ write_mutex' = t
                 /\ flush_lock' = begin_write(ok)
                 /\ writing' = [writing EXCEPT ![t] = ok]
                 /\ LET s == [thread[t] EXCEPT !.fork = f, !.incoming = n, !.began = ok]
                    IN Step(t, IF ok THEN [s EXCEPT !.pc = "pop_above"]
                               ELSE handle_pop(s, "operation_failed"))
                 /\ UNCHANGED <<handled, handler_locked>>
       /\ UNCHANGED <<top, sync, stale, aborted>>
    \/ /\ InReorg(t, "reorganize_block", "pop_above")
       /\ \E known \in BOOLEAN : Step(t, pop_above(thread[t], known))
       /\ UNCHANGED <<write_mutex, flush_lock, top, sync, stale, writing, aborted,
                      handled, handler_locked>>

\* A loop that goes on to the next position of the block.
RECURSIVE push_positions_next(_, _, _)
push_positions_next(position, count, buckets) ==
    IF position >= count THEN <<>>
    ELSE <<position>> \o push_positions_next(position + 1, count, buckets)

\* The loop of push_transactions(block, height, bucket, buckets): the
\* positions it stores, from position on, of a block of count transactions:
\* for (position = bucket; position < count;
\*      position = ceiling_add(position, buckets)).
RECURSIVE push_positions(_, _, _)
push_positions(position, count, buckets) ==
    IF position >= count THEN <<>>
    ELSE <<position>> \o push_positions(
             IF position > max_size_t - buckets THEN max_size_t
             ELSE position + buckets,
             count, buckets)

\* stored[p + 1] holds the buckets whose task has stored position p; the
\* task of the bucket now stores the given positions.
RECURSIVE store_positions(_, _, _)
store_positions(stored, bucket, positions) ==
    IF positions = <<>> THEN stored
    ELSE store_positions(
             [stored EXCEPT ![Head(positions) + 1] = Append(@, bucket)],
             bucket, Tail(positions))

\* data_base::handle_do_push_transactions for the thread in s: an error goes
\* to the next handler (push_next, which ends the loop), else
\* blocks_->store(*block, height) and commit(), then push_next for index + 1.
handle_do_push_transactions(t, s, ec) ==
    IF ec # "success"
    THEN /\ Step(t, push_next(s, ec, s.index))
         /\ UNCHANGED top
    ELSE /\ top' = [top EXCEPT !["block"] = s.height]
         /\ Step(t, push_next(s, "success", s.index + 1))

\* data_base::do_push: verify_push, then one do_push_transactions task per
\* bucket, joined by bc::synchronize.
do_push(t) ==
    LET s == thread[t] IN
    /\ InReorg(t, "reorganize_block", "do_push")
    /\ \E txs \in 0..MaxTxs, parent_ok \in BOOLEAN :
         LET ec == verify_push_block(txs, s.height, parent_ok)
             buckets == IF DispatchThreads < txs THEN DispatchThreads ELSE txs
         IN IF ec # "success"
            THEN /\ handle_do_push_transactions(t, s, ec)
                 /\ UNCHANGED sync
            ELSE /\ Step(t, [s EXCEPT !.pc = "join", !.txs = txs,
                                      !.stored = [p \in 1..txs |-> <<>>]])
                 /\ sync' = [sync EXCEPT ![t] = [pending |-> 0..(buckets - 1),
                                                 counter |-> 0, clearance |-> buckets]]
                 /\ UNCHANGED top
    /\ UNCHANGED <<write_mutex, flush_lock, stale, writing, aborted,
                   handled, handler_locked>>

\* data_base::do_push_transactions of bucket b, and the join handler: the
\* first failure completes the join at once with the error while the tasks of
\* the other buckets go on running; else the last bucket completes it.
do_push_transactions(t, b) ==
    LET s == thread[t]
        j == sync[t]
        done == [s EXCEPT !.stored =
                    store_positions(@, b, push_positions(b, s.txs, j.clearance))]
    IN
    /\ InReorg(t, "reorganize_block", "join")
    /\ b \in j.pending
    /\ \E pushed \in BOOLEAN :
         IF ~pushed
         THEN /\ stale + Cardinality(j.pending \ {b}) <= MaxStale
              /\ stale' = stale + Cardinality(j.pending \ {b})
              /\ sync' = [sync EXCEPT ![t] = NoSync]
              /\ handle_do_push_transactions(t, s, "operation_failed")
         ELSE /\ stale' = stale
              /\ IF j.counter + 1 = j.clearance
                 THEN /\ sync' = [sync EXCEPT ![t] = NoSync]
                      /\ handle_do_push_transactions(t, done, "success")
                 ELSE /\ sync' = [sync EXCEPT ![t] = [j EXCEPT !.pending = @ \ {b},
                                                             !.counter = @ + 1]]
                      /\ Step(t, done)
                      /\ UNCHANGED top
    /\ UNCHANGED <<write_mutex, flush_lock, writing, aborted, handled,
                   handler_locked>>

\* A bucket task of a block push that already failed runs to its end.
stale_task ==
    /\ stale > 0
    /\ stale' = stale - 1
    /\ UNCHANGED <<write_mutex, flush_lock, top, thread, sync, writing, aborted,
                   handled, handler_locked, tableVars, metaVars, chainVars,
                   storeVars>>

\* handle_push without its write_mutex_.unlock(): the handler runs with the
\* mutex still held by the reorganize.
handle_push_locked(t) ==
    LET s == thread[t] IN
    \/ /\ InReorg(t, "reorganize_block", "handle_push")
       /\ Step(t, [s EXCEPT !.pc = "handle_push_end"])
       /\ UNCHANGED <<write_mutex, flush_lock, top, sync, stale, writing, aborted,
                      handled, handler_locked>>
    \/ /\ InReorg(t, "reorganize_block", "handle_push_end")
       /\ \E ok \in BOOLEAN :
            /\ flush_lock' = (IF s.ec # "success" THEN flush_lock ELSE end_write(ok))
            /\ aborted' = (aborted \/ (s.began /\ (s.ec # "success" \/ ~ok)))
            /\ Handler(t, IF s.ec # "success" THEN s.ec ELSE code(ok))
       /\ writing' = [writing EXCEPT ![t] = FALSE]
       /\ UNCHANGED <<write_mutex, top, sync, stale>>

\* data_base::handle_push: write_mutex_.unlock(), then the caller's handler,
\* with the result of end_write() when there was no error.
handle_push(t) ==
    LET s == thread[t] IN
    \/ /\ InReorg(t, "reorganize_block", "handle_push")
       /\ write_mutex' = 0
       /\ Step(t, [s EXCEPT !.pc = "handle_push_end"])
       /\ UNCHANGED <<flush_lock, top, sync, stale, writing, aborted, handled,
                      handler_locked>>
    \/ /\ InReorg(t, "reorganize_block", "handle_push_end")
       /\ \E ok \in BOOLEAN :
            /\ flush_lock' = (IF s.ec # "success" THEN flush_lock ELSE end_write(ok))
            /\ aborted' = (aborted \/ (s.began /\ (s.ec # "success" \/ ~ok)))
            /\ Handler(t, IF s.ec # "success" THEN s.ec ELSE code(ok))
       /\ writing' = [writing EXCEPT ![t] = FALSE]
       /\ UNCHANGED <<write_mutex, top, sync, stale>>

\* data_base::reorganize (header): overflow guard, pop_above && push_all,
\* then the handler with the result.
reorganize_header(t) ==
    \/ /\ InReorg(t, "reorganize_header", "check")
       /\ \E f \in ForkHeights, n \in 0..MaxIncoming, known \in BOOLEAN :
            IF Overflows(f, n)
            THEN Handler(t, "operation_failed")
            ELSE /\ Step(t, pop_above([thread[t] EXCEPT !.fork = f, !.incoming = n],
                                      known))
                 /\ UNCHANGED <<handled, handler_locked>>
       /\ UNCHANGED <<write_mutex, flush_lock, top, sync, stale, writing, aborted>>
    \/ /\ InReorg(t, "reorganize_header", "finish")
       /\ Handler(t, thread[t].ec)
       /\ UNCHANGED <<write_mutex, flush_lock, top, sync, stale, writing, aborted>>

(***************************************************************************)
(* slab_hash_table / record_hash_table: a header of bucket heads over rows  *)
(* [ key | next | value ] chained per bucket.  The two tables differ in the *)
(* positions of their rows (file offsets, never 0 / record indexes from 0)  *)
(* and in the empty sentinel (0 / max_uint32).                              *)
(***************************************************************************)
Workers == 1..NumWorkers
Keys == 0..(NumKeys - 1)
Values == 1..MaxValue

\* The fields of a row that create / link have not written yet.
NoKey == -1
NoValue == 0
Unset == -1
\* find's result when no row has the key.
nullptr == -1

\* header_.empty
empty == IF kind = "slab" THEN 0 ELSE max_uint32

\* The position new_slab / new_records returns for the i-th row of the file.
Position(i) == IF kind = "slab" THEN i ELSE i - 1

\* The row at position p, when p is a row of the file.
Index(p) == IF kind = "slab" THEN p ELSE p + 1

Allocated(p) == Index(p) \in 1..Len(rows)

Row(p) == rows[Index(p)]

WorkerIdle == [op |-> "idle", pc |-> "idle", key |-> 0, value |-> NoValue,
               position |-> 0, current |-> 0, last |-> "none",
               result |-> FALSE, present |-> FALSE]

TableInit ==
    /\ kind \in {"slab", "record"}
    /\ header = [b \in 0..(Buckets - 1) |-> IF kind = "slab" THEN 0 ELSE max_uint32]
    /\ rows = <<>>
    /\ mutex = 0
    /\ worker = [w \in Workers |-> WorkerIdle]
    /\ linked = <<>>
    /\ wild = FALSE

\* bucket_index: remainder(key, header_.size())
bucket_index(key) == key % Buckets

\* read_bucket_value: header_.read(bucket_index(key))
read_bucket_value(key) == header[bucket_index(key)]

\* The positions of the rows chained from position p, following next links.
RECURSIVE Chain(_, _)
Chain(p, fuel) ==
    IF p = empty \/ ~Allocated(p) \/ fuel = 0 THEN <<>>
    ELSE <<p>> \o Chain(Row(p).next, fuel - 1)

Bucket(b) == Chain(header[b], Len(rows))

\* The loop of find / update / unlink from position current: the position of
\* the first row that compares equal to the key, and the row before it.
RECURSIVE Seek(_, _, _, _)
Seek(previous, current, key, fuel) ==
    IF current = empty \/ ~Allocated(current) \/ fuel = 0
    THEN [found |-> FALSE, previous |-> previous, current |-> current]
    ELSE IF Row(current).key = key
    THEN [found |-> TRUE, previous |-> previous, current |-> current]
    ELSE Seek(current, Row(current).next, key, fuel - 1)

\* find that returns the first row of the bucket without comparing its key.
find_head(key) ==
    IF read_bucket_value(key) = empty THEN nullptr ELSE read_bucket_value(key)

\* slab_hash_table::find / record_hash_table::find: the first row of the
\* key's bucket that has the key, nullptr when there is none.
find(key) ==
    LET r == Seek(empty, read_bucket_value(key), key, Len(rows))
    IN IF r.found THEN r.current ELSE nullptr

\* A step of worker w to position r; the table leaves the coordinator alone.
WStep(w, r) == worker' = [worker EXCEPT ![w] = r] /\ UNCHANGED <<coordVars, metaVars, chainVars, storeVars>>

\* store without its critical section: the bucket head is read and the
\* header is written with mutex_ not taken.
store_unlocked(w) ==
    LET s == worker[w] IN
    \/ /\ s.op = "idle"
       /\ ~wild
       /\ Len(rows) < MaxRows
       /\ \E k \in Keys, v \in Values :
            WStep(w, [WorkerIdle EXCEPT !.op = "store", !.pc = "create", !.key = k,
                                        !.value = v,
                                        !.position = Position(Len(rows) + 1)])
       /\ rows' = Append(rows, [key |-> NoKey, value |-> NoValue, next |-> Unset])
       /\ UNCHANGED <<header, mutex, linked>>
       /\ UNCHANGED <<kind, wild>>
    \/ /\ s.op = "store" /\ s.pc = "create"
       /\ ~wild
       /\ rows' = [rows EXCEPT ![Index(s.position)].key = s.key,
                               ![Index(s.position)].value = s.value]
       /\ WStep(w, [s EXCEPT !.pc = "lock"])
       /\ UNCHANGED <<header, mutex, linked>>
       /\ UNCHANGED <<kind, wild>>
    \/ /\ s.op = "store" /\ s.pc = "lock"
       /\ ~wild
       /\ rows' = [rows EXCEPT ![Index(s.position)].next = read_bucket_value(s.key)]
       /\ WStep(w, [s EXCEPT !.pc = "link"])
       /\ UNCHANGED <<header, mutex, linked>>
       /\ UNCHANGED <<kind, wild>>
    \/ /\ s.op = "store" /\ s.pc = "link"
       /\ ~wild
       /\ header' = [header EXCEPT ![bucket_index(s.key)] = s.position]
       /\ linked' = Append(linked, s.position)
       /\ WStep(w, WorkerIdle)
       /\ UNCHANGED <<rows, mutex>>
       /\ UNCHANGED <<kind, wild>>

\* slab_hash_table::store / record_hash_table::store: row.create (a new row,
\* then its key and value); mutex_.lock() and row.link(read_bucket_value(key));
\* link(key, position) and mutex_.unlock().
store(w) ==
    LET s == worker[w] IN
    \/ /\ s.op = "idle"
       /\ ~wild
       /\ Len(rows) < MaxRows
       /\ \E k \in Keys, v \in Values :
            WStep(w, [WorkerIdle EXCEPT !.op = "store", !.pc = "create", !.key = k,
                                        !.value = v,
                                        !.position = Position(Len(rows) + 1)])
       /\ rows' = Append(rows, [key |-> NoKey, value |-> NoValue, next |-> Unset])
       /\ UNCHANGED <<header, mutex, linked>>
       /\ UNCHANGED <<kind, wild>>
    \/ /\ s.op = "store" /\ s.pc = "create"
       /\ ~wild
       /\ rows' = [rows EXCEPT ![Index(s.position)].key = s.key,
                               ![Index(s.position)].value = s.value]
       /\ WStep(w, [s EXCEPT !.pc = "lock"])
       /\ UNCHANGED <<header, mutex, linked>>
       /\ UNCHANGED <<kind, wild>>
    \/ /\ s.op = "store" /\ s.pc = "lock"
       /\ ~wild
       /\ mutex = 0
       /\ mutex' = w
       /\ rows' = [rows EXCEPT ![Index(s.position)].next = read_bucket_value(s.key)]
       /\ WStep(w, [s EXCEPT !.pc = "link"])
       /\ UNCHANGED <<header, linked>>
       /\ UNCHANGED <<kind, wild>>
    \/ /\ s.op = "store" /\ s.pc = "link"
       /\ ~wild
       /\ header' = [header EXCEPT ![bucket_index(s.key)] = s.position]
       /\ linked' = Append(linked, s.position)
       /\ mutex' = 0
       /\ WStep(w, WorkerIdle)
       /\ UNCHANGED rows
       /\ UNCHANGED <<kind, wild>>

\* The loop shared by the callers of find and update: read the bucket head,
\* then one row per step until a row compares equal or the chain ends; update
\* then writes the value of the row found.
seek(w, o) ==
    LET s == worker[w] IN
    \/ /\ s.op = "idle"
       /\ ~wild
       /\ \E k \in Keys, v \in Values :
            WStep(w, [WorkerIdle EXCEPT !.op = o, !.pc = "seek", !.key = k,
                                        !.value = IF o = "update" THEN v ELSE NoValue,
                                        !.current = read_bucket_value(k)])
       /\ UNCHANGED rows
       /\ UNCHANGED <<kind, header, mutex, linked, wild>>
    \/ /\ s.op = o /\ s.pc = "seek"
       /\ ~wild
       /\ IF s.current = empty \/ ~Allocated(s.current)
          THEN \* return nullptr / not_found
               /\ WStep(w, WorkerIdle)
               /\ UNCHANGED rows
          ELSE IF Row(s.current).key = s.key
          THEN \* found: return item.data(), or write the value
               /\ WStep(w, WorkerIdle)
               /\ rows' = IF o = "update"
                          THEN [rows EXCEPT ![Index(s.current)].value = s.value]
                          ELSE rows
          ELSE /\ WStep(w, [s EXCEPT !.current = Row(s.current).next])
               /\ UNCHANGED rows
       /\ UNCHANGED <<kind, header, mutex, linked, wild>>

\* A caller of slab_hash_table::find / record_hash_table::find.
call_find(w) == seek(w, "find")

\* slab_hash_table::update / record_hash_table::update.
update(w) == seek(w, "update")

\* The latest row of the key among the linked ones: what unlink(key) is to
\* remove.
LatestOf(key) ==
    LET at == {i \in 1..Len(linked) : Row(linked[i]).key = key}
    IN IF at = {} THEN 0 ELSE CHOOSE i \in at : \A j \in at : j <= i

Without(seq, i) == [j \in 1..(Len(seq) - 1) |-> IF j < i THEN seq[j] ELSE seq[j + 1]]

\* unlink that drops the rest of the chain when the first row has the key.
unlink_chain(w) ==
    LET s == worker[w] IN
    /\ ~wild
    /\ s.op = "idle"
    /\ \A v \in Workers : worker[v].op # "store"
    /\ \E k \in Keys :
        LET begin == read_bucket_value(k)
            r == Seek(begin, Row(begin).next, k, Len(rows))
            latest == LatestOf(k)
            done(result) == WStep(w, [WorkerIdle EXCEPT !.last = "unlink",
                                        !.result = result, !.present = latest # 0])
        IN /\ linked' = IF latest = 0 THEN linked ELSE Without(linked, latest)
           /\ IF begin = empty
              THEN \E fault \in BOOLEAN :
                        /\ wild' = fault
                        /\ done(fault)
                        /\ UNCHANGED <<header, rows>>
              ELSE /\ wild' = wild
                   /\ IF Row(begin).key = k
                      THEN /\ header' = [header EXCEPT ![bucket_index(k)] = empty]
                           /\ done(TRUE)
                           /\ UNCHANGED rows
                      ELSE IF r.found
                      THEN /\ rows' = [rows EXCEPT ![Index(r.previous)].next =
                                                      Row(r.current).next]
                           /\ done(TRUE)
                           /\ UNCHANGED header
                      ELSE /\ done(FALSE)
                           /\ UNCHANGED <<header, rows>>
    /\ UNCHANGED <<kind, mutex>>

\* slab_hash_table::unlink / record_hash_table::unlink, called with no store
\* or unlink running on the table.  begin_item is the row at the bucket head:
\* on an empty bucket that is the row at the empty sentinel, which is no row
\* of the table; what is read there is undefined, and either the call returns
\* false with nothing written, or the table's behaviour is undefined from
\* there on (fault).
unlink(w) ==
    LET s == worker[w] IN
    /\ ~wild
    /\ s.op = "idle"
    /\ \A v \in Workers : worker[v].op # "store"
    /\ \E k \in Keys :
        LET begin == read_bucket_value(k)
            r == Seek(begin, Row(begin).next, k, Len(rows))
            latest == LatestOf(k)
            done(result) == WStep(w, [WorkerIdle EXCEPT !.last = "unlink",
                                        !.result = result, !.present = latest # 0])
        IN /\ linked' = IF latest = 0 THEN linked ELSE Without(linked, latest)
           /\ IF begin = empty
              THEN \E fault \in BOOLEAN :
                        /\ wild' = fault
                        /\ done(fault)
                        /\ UNCHANGED <<header, rows>>
              ELSE /\ wild' = wild
                   /\ IF Row(begin).key = k
                      THEN \* link(key, begin_item.next_position())
                           /\ header' = [header EXCEPT ![bucket_index(k)] = Row(begin).next]
                           /\ done(TRUE)
                           /\ UNCHANGED rows
                      ELSE IF r.found
                      THEN \* unlink(item, previous)
                           /\ rows' = [rows EXCEPT ![Index(r.previous)].next =
                                                      Row(r.current).next]
                           /\ done(TRUE)
                           /\ UNCHANGED header
                      ELSE /\ done(FALSE)
                           /\ UNCHANGED <<header, rows>>
    /\ UNCHANGED <<kind, mutex>>

TableNext ==
    \/ \E w \in Workers : store(w)
    \/ \E w \in Workers : call_find(w)
    \/ \E w \in Workers : update(w)
    \/ \E w \in Workers : unlink(w)

(***************************************************************************)
(* transaction_database: the (height, position, state) triple of a linked   *)
(* record, read by get(offset), get(hash) and spend and rewritten by        *)
(* confirm, under metadata_mutex_.                                          *)
(***************************************************************************)
Clients == 1..NumClients

\* The triples store and pool pass to confirm: confirmed at a height and a
\* position of a block, or pooled.
Triples ==
    {[height |-> h, position |-> h - 1, state |-> "confirmed"] : h \in 1..MaxConfirm}
        \cup {[height |-> unverified, position |-> unconfirmed, state |-> "pooled"]}

Unread == [height |-> 0, position |-> 0, state |-> "missing"]

ClientIdle == [op |-> "idle", pc |-> "idle", read |-> Unread, arg |-> Unread]

MetaInit ==
    /\ metadata_mutex = [exclusive |-> 0, shared |-> {}]
    /\ triple \in Triples
    /\ client = [c \in Clients |-> ClientIdle]
    /\ during = [c \in Clients |-> {}]

\* Client c is in confirm, past taking the mutex.
Rewriting(c) ==
    client[c].op = "confirm" /\ client[c].pc \in {"height", "position", "state", "unlock"}

\* The triple the record has been given: the one a running confirm is
\* writing, else the one on the record.
Given ==
    IF \E c \in Clients : Rewriting(c)
    THEN client[CHOOSE c \in Clients : Rewriting(c)].arg
    ELSE triple

\* A step of client c to position r; the record leaves the other components
\* alone.
CStep(c, r) ==
    client' = [client EXCEPT ![c] = r] /\ UNCHANGED <<coordVars, tableVars, chainVars, storeVars>>

\* A caller starts get(offset), get(hash) or spend on the record, or confirm
\* with a new triple.
call_client(c) ==
    /\ client[c].op = "idle"
    /\ \E o \in {"get_offset", "get_hash", "spend", "confirm"}, a \in Triples :
        CStep(c, [ClientIdle EXCEPT !.op = o, !.pc = "lock",
                                    !.arg = IF o = "confirm" THEN a ELSE Unread])
    /\ during' = [during EXCEPT ![c] = {Given}]
    /\ UNCHANGED <<metadata_mutex, triple>>

\* The critical section of a reader: metadata_mutex_.lock_shared(), the three
\* reads in order, metadata_mutex_.unlock_shared(); then the result is built
\* from what was read.
read_triple(c, o) ==
    LET s == client[c] IN
    \/ /\ s.op = o /\ s.pc = "lock"
       /\ metadata_mutex.exclusive = 0
       /\ metadata_mutex' = [metadata_mutex EXCEPT !.shared = @ \cup {c}]
       /\ CStep(c, [s EXCEPT !.pc = "height"])
       /\ UNCHANGED <<triple, during>>
    \/ /\ s.op = o /\ s.pc = "height"
       /\ CStep(c, [s EXCEPT !.pc = "position", !.read.height = triple.height])
       /\ UNCHANGED <<metadata_mutex, triple, during>>
    \/ /\ s.op = o /\ s.pc = "position"
       /\ CStep(c, [s EXCEPT !.pc = "state", !.read.position = triple.position])
       /\ UNCHANGED <<metadata_mutex, triple, during>>
    \/ /\ s.op = o /\ s.pc = "state"
       /\ CStep(c, [s EXCEPT !.pc = "unlock", !.read.state = triple.state])
       /\ UNCHANGED <<metadata_mutex, triple, during>>
    \/ /\ s.op = o /\ s.pc = "unlock"
       /\ metadata_mutex' = [metadata_mutex EXCEPT !.shared = @ \ {c}]
       /\ CStep(c, [s EXCEPT !.pc = "return"])
       /\ UNCHANGED <<triple, during>>
    \/ /\ s.op = o /\ s.pc = "return"
       /\ CStep(c, ClientIdle)
       /\ UNCHANGED <<metadata_mutex, triple, during>>

\* transaction_database::get(file_offset)
get_offset(c) == read_triple(c, "get_offset")

\* transaction_database::get(const hash_digest&)
get_hash(c) == read_triple(c, "get_hash")

\* transaction_database::spend: the read of the triple of the spent record.
spend_read(c) == read_triple(c, "spend")

\* confirm that writes the three fields with metadata_mutex_ not taken.
confirm_unlocked(c) ==
    LET s == client[c] IN
    \/ /\ s.op = "confirm" /\ s.pc = "lock"
       /\ during' = [d \in Clients |->
                        IF client[d].op = "idle" THEN during[d]
                        ELSE during[d] \cup {s.arg}]
       /\ CStep(c, [s EXCEPT !.pc = "height"])
       /\ UNCHANGED <<metadata_mutex, triple>>
    \/ /\ s.op = "confirm" /\ s.pc = "height"
       /\ triple' = [triple EXCEPT !.height = s.arg.height]
       /\ CStep(c, [s EXCEPT !.pc = "position"])
       /\ UNCHANGED <<metadata_mutex, during>>
    \/ /\ s.op = "confirm" /\ s.pc = "position"
       /\ triple' = [triple EXCEPT !.position = s.arg.position]
       /\ CStep(c, [s EXCEPT !.pc = "state"])
       /\ UNCHANGED <<metadata_mutex, during>>
    \/ /\ s.op = "confirm" /\ s.pc = "state"
       /\ triple' = [triple EXCEPT !.state = s.arg.state]
       /\ CStep(c, [s EXCEPT !.pc = "unlock"])
       /\ UNCHANGED <<metadata_mutex, during>>
    \/ /\ s.op = "confirm" /\ s.pc = "unlock"
       /\ CStep(c, ClientIdle)
       /\ UNCHANGED <<metadata_mutex, triple, during>>

\* transaction_database::confirm: unique_lock lock(metadata_mutex_), the
\* three writes in order, unlock on return.
confirm(c) ==
    LET s == client[c] IN
    \/ /\ s.op = "confirm" /\ s.pc = "lock"
       /\ metadata_mutex.exclusive = 0 /\ metadata_mutex.shared = {}
       /\ metadata_mutex' = [metadata_mutex EXCEPT !.exclusive = c]
       /\ during' = [d \in Clients |->
                        IF client[d].op = "idle" THEN during[d]
                        ELSE during[d] \cup {s.arg}]
       /\ CStep(c, [s EXCEPT !.pc = "height"])
       /\ UNCHANGED triple
    \/ /\ s.op = "confirm" /\ s.pc = "height"
       /\ triple' = [triple EXCEPT !.height = s.arg.height]
       /\ CStep(c, [s EXCEPT !.pc = "position"])
       /\ UNCHANGED <<metadata_mutex, during>>
    \/ /\ s.op = "confirm" /\ s.pc = "position"
       /\ triple' = [triple EXCEPT !.position = s.arg.position]
       /\ CStep(c, [s EXCEPT !.pc = "state"])
       /\ UNCHANGED <<metadata_mutex, during>>
    \/ /\ s.op = "confirm" /\ s.pc = "state"
       /\ triple' = [triple EXCEPT !.state = s.arg.state]
       /\ CStep(c, [s EXCEPT !.pc = "unlock"])
       /\ UNCHANGED <<metadata_mutex, during>>
    \/ /\ s.op = "confirm" /\ s.pc = "unlock"
       /\ metadata_mutex' = [metadata_mutex EXCEPT !.exclusive = 0]
       /\ CStep(c, ClientIdle)
       /\ UNCHANGED <<triple, during>>

MetaNext ==
    \/ \E c \in Clients : call_client(c)
    \/ \E c \in Clients : get_offset(c)
    \/ \E c \in Clients : get_hash(c)
    \/ \E c \in Clients : spend_read(c)
    \/ \E c \in Clients : confirm(c)

\* The steps of caller thread t.
ThreadNext(t) ==
    \/ call_writer(t)
    \/ push_tx(t)
    \/ push_header(t)
    \/ push_block(t)
    \/ pop_block(t)
    \/ pop_header(t)
    \/ call_reorganize(t)
    \/ reorganize_block(t)
    \/ do_push(t)
    \/ \E b \in 0..(DispatchThreads - 1) : do_push_transactions(t, b)
    \/ handle_push(t)
    \/ reorganize_header(t)

CoordNext ==
    \/ \E t \in Threads : ThreadNext(t)
    \/ stale_task

(***************************************************************************)
(* The process and the store across a stop.  A stop ends every thread of    *)
(* the process and leaves the files as they are; open() is then called on   *)
(* the store directory, and an operator may remove the flush-lock sentinel. *)
(***************************************************************************)
Running == [state |-> "running", in_write |-> FALSE, removed |-> FALSE]

\* The sub-databases in the order create, open and close take them.
sub_databases ==
    <<"blocks", "transactions">>
        \o (IF index_addresses THEN <<"spends", "history", "stealth">> ELSE <<>>)

\* The names of every sub-database and of the store.
Closables == {"blocks", "transactions", "spends", "history", "stealth", "store"}

\* data_base::data_base(settings): closed_(true).
Constructed ==
    [closed_ |-> TRUE, lock |-> FALSE, opened |-> {},
     closes |-> [d \in Closables |-> 0],
     caller |-> [t \in Threads |-> "idle"],
     result |-> [t \in Threads |-> "none"],
     last |-> "none"]

\* The data_base after a create() or an open() that returned true.
Opened ==
    [Constructed EXCEPT !.closed_ = FALSE, !.lock = TRUE,
                        !.opened = {sub_databases[i] : i \in DOMAIN sub_databases}]

\* The width of size_t in the model of the memory-mapped file.
SizeBits == 6

\* The largest size_t of that width.
max_file_size == 2^SizeBits - 1

\* The largest size of the file when it is mapped by the constructor.
MaxFile == 3

\* mmfile::mmfile(filename): size_ = file_size(handle), map(size_).
Mapped(size) ==
    [size_ |-> size, length |-> size, data_ |-> "mapped",
     reserved |-> 0, returned |-> "none", before |-> size]

FileIdle == file = Mapped(1)

StoreInit == process = Running /\ base = Opened /\ FileIdle

\* The process stops: in_write records that a write of one of its threads was
\* between begin_write and end_write.
stop ==
    /\ process.state = "running"
    /\ process' = [Running EXCEPT !.state = "stopped",
                                  !.in_write = \E t \in Threads : writing[t]]
    /\ thread' = [t \in Threads |-> Idle]
    /\ sync' = [t \in Threads |-> NoSync]
    /\ write_mutex' = 0
    /\ stale' = 0
    /\ writing' = [t \in Threads |-> FALSE]
    /\ UNCHANGED <<flush_lock, top, aborted, handled, handler_locked,
                   tableVars, metaVars, chainVars, base, file>>

\* store::open(): false when the flush-lock sentinel is present.
store_open == ~flush_lock

\* data_base::open(): store::open(), start(), then the open of each
\* sub-database (opened).
open ==
    /\ process.state \in {"stopped", "open_failed"}
    /\ \E opened \in BOOLEAN :
         process' = [process EXCEPT !.state = IF store_open /\ opened
                                             THEN "opened" ELSE "open_failed"]
    /\ UNCHANGED <<coordVars, tableVars, metaVars, chainVars, base, file>>

\* The operator removes the sentinel of the stopped store.
remove_flush_lock ==
    /\ process.state \in {"stopped", "open_failed"}
    /\ flush_lock
    /\ flush_lock' = FALSE
    /\ process' = [process EXCEPT !.removed = TRUE]
    /\ UNCHANGED <<write_mutex, top, thread, sync, stale, writing, aborted,
                   handled, handler_locked, tableVars, metaVars, chainVars, base, file>>

(***************************************************************************)
(* data_base::create, open and close.  store::open takes the exclusive     *)
(* file lock of the directory and store::close releases it; each of these  *)
(* calls, and the create, open and close of a sub-database, may return      *)
(* false.                                                                   *)
(***************************************************************************)
BaseInit == base = Constructed

\* A step of the data_base object alone.
BaseStep(b) ==
    /\ base' = b
    /\ UNCHANGED <<coordVars, tableVars, metaVars, chainVars, process, file>>

\* a && b && ... over the sub-databases, the call of number failing
\* returning false (none when failing is 0): the sub-databases whose call
\* returned true.
Succeeded(failing) ==
    {sub_databases[i] :
        i \in 1..(IF failing = 0 THEN Len(sub_databases) ELSE failing - 1)}

\* The sub-databases whose call was made.
Called(failing) ==
    {sub_databases[i] :
        i \in 1..(IF failing = 0 THEN Len(sub_databases) ELSE failing)}

\* No thread is inside close().
NoCaller == \A t \in Threads : base.caller[t] = "idle"

\* data_base::create(genesis): store::open(), store::create(), start(),
\* the create of each sub-database, the two pushes of the genesis block.
data_base_create ==
    /\ NoCaller
    /\ \E opened \in BOOLEAN, created \in BOOLEAN, pushed \in BOOLEAN,
          failing \in 0..Len(sub_databases) :
         LET began == [base EXCEPT !.last = "create",
                                   !.result = [t \in Threads |-> "none"]]
             locked == [began EXCEPT !.lock = TRUE]
         IN IF base.lock \/ ~opened
            THEN \* if (!store::open()) return false
                 created /\ pushed /\ failing = 0 /\ BaseStep(began)
            ELSE IF ~created
            THEN \* if (!store::create()) return false
                 pushed /\ failing = 0 /\ BaseStep(locked)
            ELSE IF failing # 0
            THEN \* if (!created) return false
                 pushed /\ BaseStep([locked EXCEPT !.opened = Succeeded(failing)])
            ELSE \* created = push(header) && push(block); closed_ = false
                 BaseStep([locked EXCEPT !.opened = Succeeded(0),
                                         !.closed_ = FALSE,
                                         !.closes = [d \in Closables |-> 0]])

\* data_base::open(): store::open(), start(), the open of each
\* sub-database, closed_ = false.
data_base_open ==
    /\ NoCaller
    /\ \E opened \in BOOLEAN, failing \in 0..Len(sub_databases) :
         LET began == [base EXCEPT !.last = "open",
                                   !.result = [t \in Threads |-> "none"]]
         IN IF base.lock \/ ~opened
            THEN \* if (!store::open()) return false
                 failing = 0 /\ BaseStep(began)
            ELSE BaseStep([began EXCEPT !.lock = TRUE,
                                        !.opened = Succeeded(failing),
                                        !.closed_ = FALSE,
                                        !.closes = [d \in Closables |-> 0]])

\* data_base::close(): if (closed_) return true.
close_check(t) ==
    /\ base.caller[t] = "idle"
    /\ BaseStep(IF base.closed_
                THEN [base EXCEPT !.result[t] = "true", !.last = "close"]
                ELSE [base EXCEPT !.caller[t] = "set", !.result[t] = "none",
                                  !.last = "close"])

\* closed_ = true
close_set(t) ==
    /\ base.caller[t] = "set"
    /\ BaseStep([base EXCEPT !.caller[t] = "close", !.closed_ = TRUE])

\* The close of each sub-database and store::close(), up to the first that
\* returns false.
close_databases(t) ==
    /\ base.caller[t] = "close"
    /\ \E failing \in 0..Len(sub_databases), closed \in BOOLEAN :
         LET called == Called(failing) \cup (IF failing = 0 THEN {"store"} ELSE {})
         IN /\ failing # 0 => closed
            /\ BaseStep([base EXCEPT
                   !.caller[t] = "idle",
                   !.result[t] = IF failing = 0 /\ closed THEN "true" ELSE "false",
                   !.opened = @ \ Succeeded(failing),
                   !.lock = IF failing = 0 /\ closed THEN FALSE ELSE @,
                   !.closes = [d \in Closables |->
                                  IF d \in called THEN @[d] + 1 ELSE @[d]]])

BaseNext ==
    \/ data_base_create
    \/ data_base_open
    \/ \E t \in Threads : close_check(t)
    \/ \E t \in Threads : close_set(t)
    \/ \E t \in Threads : close_databases(t)

(***************************************************************************)
(* mmfile.  The file has a length on disk and a mapping of size_ bytes;    *)
(* ftruncate and the mapping calls may fail.                               *)
(***************************************************************************)
\* const size_t new_size = size * 3 / 2, in size_t arithmetic, rounded up.
grown_ceiling(size) == (((size * 3) % (2^SizeBits)) + 1) \div 2

\* const size_t new_size = size * 3 / 2, in size_t arithmetic.
grown(size) == ((size * 3) % (2^SizeBits)) \div 2

\* mmfile::validate(size) after remap(new_size) or unmap() && map(new_size).
validate(f, size, remapped) ==
    IF remapped /\ size # 0
    THEN [f EXCEPT !.size_ = size, !.data_ = "mapped", !.returned = "true"]
    ELSE [f EXCEPT !.size_ = 0, !.data_ = "nullptr", !.returned = "false"]

\* mmfile::resize(new_size): ftruncate, then the mapping is readjusted.
resize(f, new_size, truncated, remapped) ==
    IF ~truncated
    THEN [f EXCEPT !.returned = "false"]
    ELSE validate([f EXCEPT !.length = new_size], new_size, remapped)

\* mmfile::reserve(size)
reserve(f, size, truncated, remapped) ==
    LET called == [f EXCEPT !.reserved = size, !.before = f.size_]
    IN IF size <= f.size_
       THEN [called EXCEPT !.returned = "true"]
       ELSE resize(called, grown(size), truncated, remapped)

FileStep(f) ==
    /\ file' = f
    /\ UNCHANGED <<coordVars, tableVars, metaVars, chainVars, process, base>>

call_reserve ==
    \E size \in 0..max_file_size, truncated \in BOOLEAN, remapped \in BOOLEAN :
        /\ file.data_ = "mapped"
        /\ ~truncated => remapped
        /\ FileStep(reserve(file, size, truncated, remapped))

(***************************************************************************)
(* The sub-databases under sequential push and pop of blocks: the           *)
(* transaction records with their output bytes, the block index, the spend  *)
(* rows and the address history.                                            *)
(***************************************************************************)
\* transaction_database.cpp: the sizes spend() skips for each output.
spender_height_size == 4
output_value_size == 8
\* transaction_result.cpp: the sizes output() skips for each output.
indexed_size == 1
height_size == 4
value_size == 8
\* slab_hash_table::not_found, the offset of a transaction that is not stored.
not_found == 0
\* output::validation::not_spent, the spender height of an unspent output.
not_spent == max_uint32
\* What a cursor holds once it has left the outputs of its record.
Lost == -1

Point(hash, index) == [hash |-> hash, index |-> index]
\* The previous output of a coinbase input: point.is_null().
null_point == Point("null", max_uint32)
Input(prevout, address) == [previous_output |-> prevout, address |-> address]
\* An output paying 50 to the address its one-byte script names.
Output(address) == [value |-> 50, script |-> <<address>>]
\* The addresses the scripts of the model name.
Addresses == {1, 2}

\* Hashes of the coinbase transactions by the height of their block: the
\* genesis block holds g, the block at height 1 holds f.
Coinbases == <<"g", "f", "cb2", "cb3", "cb4", "cb5", "cb6">>

coinbase_hash(height) == Coinbases[height + 1]

\* The transactions by hash.  f has two outputs; a spends the first and p
\* the second; b and c spend the two outputs of a.
Tx(hash) ==
    CASE hash = "f" -> [inputs |-> <<Input(null_point, 0)>>,
                        outputs |-> <<Output(1), Output(2)>>]
      [] hash = "a" -> [inputs |-> <<Input(Point("f", 0), 1)>>,
                        outputs |-> <<Output(1), Output(2)>>]
      [] hash = "b" -> [inputs |-> <<Input(Point("a", 0), 1)>>,
                        outputs |-> <<Output(2)>>]
      [] hash = "c" -> [inputs |-> <<Input(Point("a", 1), 2)>>,
                        outputs |-> <<Output(1)>>]
      [] hash = "p" -> [inputs |-> <<Input(Point("f", 1), 2)>>,
                        outputs |-> <<Output(2)>>]
      [] OTHER -> [inputs |-> <<Input(null_point, 0)>>,
                   outputs |-> <<Output(1)>>]

\* The transactions a pushed block may hold after its coinbase.
Candidates == {"a", "b", "c", "p"}

\* tx.is_coinbase()
is_coinbase(hash) ==
    LET inputs == Tx(hash).inputs
    IN Len(inputs) = 1 /\ inputs[1].previous_output = null_point

\* write_4_bytes_little_endian: the bytes of a 4 byte value.  max_uint32
\* stands for 2^32 - 1, whose four bytes are 0xff.
little_endian_4(n) ==
    IF n = max_uint32 THEN <<255, 255, 255, 255>>
    ELSE <<n % 256, (n \div 256) % 256, (n \div 65536) % 256,
           (n \div 16777216) % 256>>

\* The bytes of an 8 byte value below 2^31.
little_endian_8(n) == little_endian_4(n) \o <<0, 0, 0, 0>>

\* One output of a record (format v4): index_spend:1, spender_height:4,
\* value:8, script:varint.  A stored output is not spent.
output_to_data(output) ==
    <<0>> \o little_endian_4(not_spent) \o little_endian_8(output.value)
          \o <<Len(output.script)>> \o output.script

\* The outputs of tx.to_data(serial, false), after the output count.
RECURSIVE outputs_to_data(_)
outputs_to_data(outputs) ==
    IF outputs = <<>> THEN <<>>
    ELSE output_to_data(Head(outputs)) \o outputs_to_data(Tail(outputs))

\* The slab store() writes for a transaction.
Slab(hash, height, position, state) ==
    [hash |-> hash, height |-> height, position |-> position, state |-> state,
     outputs |-> Len(Tx(hash).outputs),
     data |-> outputs_to_data(Tx(hash).outputs)]

\* The skip loop of spend() and of output(): n times skip(fixed), then
\* skip(read_size_little_endian()), from the offset pos in the outputs.  A
\* size of 0xfd or more is a multi-byte size and leaves the record.
RECURSIVE skip_outputs(_, _, _, _)
skip_outputs(data, pos, n, fixed) ==
    IF n = 0 \/ pos = Lost THEN pos
    ELSE LET at == pos + fixed
         IN IF at >= Len(data) \/ data[at + 1] >= 253 THEN Lost
            ELSE skip_outputs(data, at + 1 + data[at + 1], n - 1, fixed)

\* serial.write_4_bytes_little_endian(value) at the offset pos.
write_4_bytes_little_endian(data, pos, value) ==
    [i \in 1..Len(data) |->
        IF i \in (pos + 1)..(pos + 4) THEN little_endian_4(value)[i - pos]
        ELSE data[i]]

\* The sub-databases as one value.  ok is false once a call on them has
\* returned false: the callers return at once on a false return, so every
\* later operation of the handler leaves such a value as it is.
Db == [transactions |-> transactions, spends |-> spends, history |-> history,
       lost |-> chain.lost, ok |-> TRUE, cache |-> cache]

\* return false
No(db) == [db EXCEPT !.ok = FALSE]

\* lookup_map_.find(hash): the offset of the slab stored last under the hash.
lookup_map_find(db, hash) ==
    LET found == {i \in 1..Len(db.transactions) : db.transactions[i].hash = hash}
    IN IF found = {} THEN not_found
       ELSE CHOOSE i \in found : \A j \in found : j <= i

\* lookup_map_.store(tx.hash(), write, size): the slab is written after the
\* slabs the store holds.
lookup_map_store(db, slab) ==
    IF ~db.ok THEN db ELSE [db EXCEPT !.transactions = Append(@, slab)]

\* The entries of the cache that are not of the point.
RECURSIVE without(_, _)
without(entries, point) ==
    IF entries = <<>> THEN <<>>
    ELSE IF Head(entries).point = point THEN without(Tail(entries), point)
    ELSE <<Head(entries)>> \o without(Tail(entries), point)

\* cache_.remove(point)
cache_remove(db, point) == [db EXCEPT !.cache = without(@, point)]

\* The outputs of the transaction as entries of the cache.
cached_outputs(hash, height) ==
    [i \in 1..Len(Tx(hash).outputs) |->
        [point |-> Point(hash, i - 1), height |-> height]]

\* The entries the cache keeps of the given ones: the newest cache_capacity.
newest(entries) ==
    IF Len(entries) <= cache_capacity THEN entries
    ELSE SubSeq(entries, Len(entries) - cache_capacity + 1, Len(entries))

\* cache_.add(tx, height, confirmed): the cache holds unspent outputs of
\* confirmed transactions only, and drops its oldest entries when full.
cache_add(db, hash, height, confirmed) ==
    IF ~db.ok \/ ~confirmed THEN db
    ELSE [db EXCEPT !.cache = newest(@ \o cached_outputs(hash, height))]

\* cache_.populate(point, fork_height): a hit when the cache holds the point
\* as confirmed at the fork height.
cache_populate(point, fork_height) ==
    \E i \in 1..Len(cache) :
        cache[i].point = point /\ cache[i].height <= fork_height

\* transaction_database::spend(point, spender_height) from lookup_map_.find.
spend_found(db, point, spender_height) ==
    LET slab == lookup_map_find(db, point.hash)
        record == db.transactions[slab]
        pos == skip_outputs(record.data, 0, point.index,
                            spender_height_size + output_value_size)
    IN IF slab = not_found THEN No(db)
       ELSE IF record.state # "confirmed" \/ record.height > spender_height
       THEN No(db)
       ELSE IF point.index >= record.outputs THEN No(db)
       ELSE IF pos = Lost \/ pos + 4 > Len(record.data)
       THEN \* the write lands outside the outputs of the record
            [db EXCEPT !.lost = TRUE]
       ELSE [db EXCEPT !.transactions[slab].data =
                write_4_bytes_little_endian(@, pos, spender_height)]

\* A spend that leaves the cache as it is.
transaction_database_spend_cached(db, point, spender_height) ==
    IF ~db.ok \/ point = null_point THEN db
    ELSE spend_found(db, point, spender_height)

\* transaction_database::spend(point, spender_height)
transaction_database_spend(db, point, spender_height) ==
    IF ~db.ok \/ point = null_point THEN db
    ELSE spend_found(IF spender_height # not_spent
                     THEN cache_remove(db, point) ELSE db,
                     point, spender_height)

\* A confirm that leaves the position of the record as it was.
transaction_database_confirm_height(db, offset, height, position, state) ==
    IF ~db.ok THEN db
    ELSE IF offset \notin 1..Len(db.transactions) THEN No(db)
    ELSE [db EXCEPT !.transactions[offset].height = height,
                    !.transactions[offset].state = state]

\* transaction_database::confirm(offset, height, position, state)
transaction_database_confirm(db, offset, height, position, state) ==
    IF ~db.ok THEN db
    ELSE IF offset \notin 1..Len(db.transactions) THEN No(db)
    ELSE [db EXCEPT !.transactions[offset].height = height,
                    !.transactions[offset].position = position,
                    !.transactions[offset].state = state]

\* for (input: tx.inputs()) if (!spend(input.previous_output(), height))
\*     return false;
RECURSIVE spend_inputs(_, _, _)
spend_inputs(db, inputs, spender_height) ==
    IF inputs = <<>> THEN db
    ELSE spend_inputs(transaction_database_spend(db, Head(inputs).previous_output,
                                                 spender_height),
                      Tail(inputs), spender_height)

\* transaction_database::store(tx, height, position, state): tx.offset is
\* tx.validation.offset as the caller passes it.
transaction_database_store(db, tx, height, position, state) ==
    IF state = "confirmed" /\ tx.offset # not_found
    THEN transaction_database_confirm(
             cache_add(spend_inputs(db, Tx(tx.hash).inputs, height),
                       tx.hash, height, TRUE),
             tx.offset, height, position, state)
    ELSE cache_add(
             lookup_map_store(
                 IF state = "confirmed"
                 THEN spend_inputs(db, Tx(tx.hash).inputs, height)
                 ELSE db,
                 Slab(tx.hash, height, position, state)),
             tx.hash, height, state = "confirmed")

\* tx.validation.offset after store(tx, ...) returned true on db: the offset
\* of the promoted slab, or of the slab store wrote.
stored_offset(db, tx) ==
    IF tx.offset # not_found THEN tx.offset ELSE Len(db.transactions) + 1

\* transaction_database::pool(tx)
transaction_database_pool(db, tx) ==
    transaction_database_confirm(
        spend_inputs(db, Tx(tx.hash).inputs, not_spent),
        tx.offset, unverified, unconfirmed, "pooled")

\* spends_->store(prevout, point): a row under the key prevout.
spends_store(db, prevout, point) ==
    [db EXCEPT !.spends = Append(@, [key |-> prevout, value |-> point])]

\* spends_->unlink(prevout): removes the row stored last under the key; false
\* when the key has no row.
spends_unlink(db, prevout) ==
    LET found == {i \in 1..Len(db.spends) : db.spends[i].key = prevout}
        last == CHOOSE i \in found : \A j \in found : j <= i
    IN IF ~db.ok THEN db
       ELSE IF found = {} THEN No(db)
       ELSE [db EXCEPT !.spends = SubSeq(@, 1, last - 1)
                                  \o SubSeq(@, last + 1, Len(@))]

\* history_database::store(key, payment): rows_multimap_.add_row.
history_store(db, key, payment) ==
    [db EXCEPT !.history[key] = Append(@, payment)]

\* history_database::unlink_last_row(key): rows_multimap_.delete_last_row,
\* false when the key has no row.
unlink_last_row(db, key) ==
    IF ~db.ok THEN db
    ELSE IF db.history[key] = <<>> THEN No(db)
    ELSE [db EXCEPT !.history[key] = SubSeq(@, 1, Len(@) - 1)]

\* The loop of data_base::push_inputs from the input at index.
RECURSIVE push_inputs_from(_, _, _, _)
push_inputs_from(db, hash, height, index) ==
    IF index >= Len(Tx(hash).inputs) THEN db
    ELSE push_inputs_from(
             history_store(
                 spends_store(db, Tx(hash).inputs[index + 1].previous_output,
                              Point(hash, index)),
                 Tx(hash).inputs[index + 1].address,
                 [height |-> height, kind |-> "input",
                  point |-> Point(hash, index),
                  checksum |-> Tx(hash).inputs[index + 1].previous_output,
                  value |-> 0]),
             hash, height, index + 1)

\* data_base::push_inputs(tx, height)
push_inputs(db, hash, height) ==
    IF ~db.ok \/ is_coinbase(hash) THEN db
    ELSE push_inputs_from(db, hash, height, 0)

\* The loop of data_base::push_outputs from the output at index.
RECURSIVE push_outputs_from(_, _, _, _)
push_outputs_from(db, hash, height, index) ==
    IF index >= Len(Tx(hash).outputs) THEN db
    ELSE push_outputs_from(
             history_store(db, Tx(hash).outputs[index + 1].script[1],
                 [height |-> height, kind |-> "output",
                  point |-> Point(hash, index), checksum |-> null_point,
                  value |-> Tx(hash).outputs[index + 1].value]),
             hash, height, index + 1)

\* data_base::push_outputs(tx, height)
push_outputs(db, hash, height) ==
    IF ~db.ok THEN db ELSE push_outputs_from(db, hash, height, 0)

\* data_base::push_stealth(tx, height): no script of the model holds an
\* ephemeral key, so nothing is stored.
push_stealth(db, hash, height) == db

\* data_base::push_transactions(block, height, bucket, buckets, confirmed)
\* from the given position: txs[i] is the hash and validation.offset of the
\* transaction at position i - 1, and the result holds the offsets store left.
RECURSIVE push_transactions(_, _, _, _, _)
push_transactions(db, txs, height, position, buckets) ==
    IF position >= Len(txs) \/ ~db.ok THEN [db |-> db, txs |-> txs]
    ELSE push_transactions(
             IF index_addresses
             THEN push_stealth(
                      push_outputs(
                          push_inputs(
                              transaction_database_store(db, txs[position + 1],
                                  height, position, "confirmed"),
                              txs[position + 1].hash, height),
                          txs[position + 1].hash, height),
                      txs[position + 1].hash, height)
             ELSE transaction_database_store(db, txs[position + 1], height,
                                             position, "confirmed"),
             [txs EXCEPT ![position + 1].offset =
                 stored_offset(db, txs[position + 1])],
             height, position + buckets, buckets)

\* The first loop of data_base::pop_inputs: spends_->unlink for each input.
RECURSIVE unlink_spends(_, _)
unlink_spends(db, inputs) ==
    IF inputs = <<>> THEN db
    ELSE unlink_spends(spends_unlink(db, Head(inputs).previous_output),
                       Tail(inputs))

\* The history loops of pop_inputs and pop_outputs: unlink_last_row for the
\* address of each input or output.
RECURSIVE unlink_rows(_, _)
unlink_rows(db, addresses) ==
    IF addresses = <<>> THEN db
    ELSE unlink_rows(unlink_last_row(db, Head(addresses)), Tail(addresses))

\* data_base::pop_inputs(tx)
pop_inputs(db, hash) ==
    IF ~db.ok \/ ~index_addresses \/ is_coinbase(hash) THEN db
    ELSE unlink_rows(unlink_spends(db, Tx(hash).inputs),
                     [i \in 1..Len(Tx(hash).inputs) |->
                         Tx(hash).inputs[i].address])

\* data_base::pop_outputs(tx)
pop_outputs(db, hash) ==
    IF ~db.ok \/ ~index_addresses THEN db
    ELSE unlink_rows(db, [i \in 1..Len(Tx(hash).outputs) |->
                             Tx(hash).outputs[i].script[1]])

\* data_base::pop_stealth(tx): not implemented, returns true.
pop_stealth(db, hash) == db

\* data_base::pop_transactions(block, bucket, buckets) from the given position.
RECURSIVE pop_transactions(_, _, _, _)
pop_transactions(db, txs, position, buckets) ==
    IF position >= Len(txs) \/ ~db.ok THEN db
    ELSE pop_transactions(
             IF index_addresses
             THEN pop_stealth(
                      pop_outputs(
                          pop_inputs(
                              transaction_database_pool(db, txs[position + 1]),
                              txs[position + 1].hash),
                          txs[position + 1].hash),
                      txs[position + 1].hash)
             ELSE transaction_database_pool(db, txs[position + 1]),
             txs, position + buckets, buckets)

\* transaction::factory over the outputs of a slab: each output is read as
\* index_spend:1, spender_height:4, value:8, script:varint, and the inputs
\* follow the last output.  The inputs are found where they were written
\* when the walk ends where the outputs end.
Intact(slab) ==
    skip_outputs(slab.data, 0, slab.outputs,
                 indexed_size + height_size + value_size) = Len(slab.data)

\* to_transactions(result): the transactions of a block of the index, read
\* from the slabs at the offsets the block database holds.
to_transactions(result) ==
    [i \in 1..Len(result) |->
        [hash |-> transactions[result[i]].hash, offset |-> result[i]]]

\* transaction_result::output(index) on a slab: the index_spend byte, the
\* spender height, the value and the script as the reader finds them; the
\* empty tuple when the index is out of range or the read leaves the outputs
\* of the record.
transaction_result_output(slab, index) ==
    LET pos == skip_outputs(slab.data, 0, index,
                            indexed_size + height_size + value_size)
        size == slab.data[pos + 14]
    IN IF index >= slab.outputs THEN <<>>
       ELSE IF pos = Lost \/ pos + 14 > Len(slab.data) THEN <<>>
       ELSE IF size >= 253 \/ pos + 14 + size > Len(slab.data) THEN <<>>
       ELSE <<slab.data[pos + 1], SubSeq(slab.data, pos + 2, pos + 5),
              SubSeq(slab.data, pos + 6, pos + 13),
              SubSeq(slab.data, pos + 15, pos + 14 + size)>>

\* The fork heights get_output is asked with.
ForkPoints == {0, 1, MaxTop, max_size_t}

\* transaction_database::get_output(point, fork_height): whether the
\* previous output is populated.
get_output(point, fork_height) ==
    LET slab == lookup_map_find(Db, point.hash)
        result == transactions[slab]
        require_confirmed == fork_height # max_size_t
        confirmed == \/ result.state = "indexed" /\ require_confirmed
                     \/ result.state = "confirmed" /\ result.height <= fork_height
    IN IF point = null_point THEN FALSE
       ELSE IF cache_populate(point, fork_height) THEN TRUE
       ELSE IF slab = not_found THEN FALSE
       ELSE IF result.height = 0 THEN FALSE
       ELSE IF require_confirmed /\ ~confirmed THEN FALSE
       ELSE transaction_result_output(result, point.index) # <<>>

\* No writer has been called.
NoCall ==
    [op |-> "none", height |-> 0, previous |-> "none", txs |-> <<>>,
     forks |-> 0, ec |-> "success", began |-> FALSE, n |-> 0,
     size |-> 0, incoming |-> <<>>, outgoing |-> <<>>, was |-> <<>>,
     waiting |-> FALSE, slabs |-> Len(transactions), point |-> null_point,
     stage |-> "none", block |-> <<>>, committed |-> <<>>]

\* The store a run begins with: create(genesis) and the block <<f>> pushed at
\* height 1, with indexing as given, and p pooled by push(tx, forks) for each
\* forks of pool (none or one).
ChainAt(indexing, pool) ==
    /\ index_addresses = indexing
    /\ \E genesis \in {push_transactions(
                           [transactions |-> <<>>, spends |-> <<>>,
                            history |-> [a \in Addresses |-> <<>>],
                            lost |-> FALSE, ok |-> TRUE, cache |-> <<>>],
                           <<[hash |-> coinbase_hash(0), offset |-> not_found]>>,
                           0, 0, 1)} :
       \E first \in {push_transactions(genesis.db,
                           <<[hash |-> coinbase_hash(1), offset |-> not_found]>>,
                           1, 0, 1)} :
       \E pooled \in {IF pool = <<>> THEN first.db
                       ELSE transaction_database_store(first.db,
                                [hash |-> "p", offset |-> not_found],
                                pool[1], unconfirmed, "pooled")} :
          /\ transactions = pooled.transactions
          /\ blocks = <<<<genesis.txs[1].offset>>, <<first.txs[1].offset>>>>
          /\ spends = pooled.spends
          /\ history = pooled.history
          /\ cache = pooled.cache
          /\ chain = [phase |-> "push", lost |-> FALSE,
                      before |-> [transactions |-> transactions,
                                  blocks |-> blocks,
                                  spends |-> spends,
                                  history |-> history]]
          /\ indexes = [i \in {"header", "block"} |->
                          <<coinbase_hash(0), coinbase_hash(1)>>]
          /\ call = NoCall

\* The fork sets p may have been pooled under.
Pools == {<<>>, <<1>>, <<unverified>>}

ChainInit == \E indexing \in BOOLEAN, pool \in Pools : ChainAt(indexing, pool)

\* The sub-databases as the other specifications leave them.
ChainIdle == ChainAt(FALSE, <<>>)

\* The transaction stored last under the hash is confirmed.
is_confirmed(hash) ==
    LET slab == lookup_map_find(Db, hash)
    IN slab # not_found /\ transactions[slab].state = "confirmed"

\* The outputs the inputs of the confirmed transactions spend.
SpentOutputs ==
    UNION {{Tx(transactions[i].hash).inputs[n].previous_output :
                n \in 1..Len(Tx(transactions[i].hash).inputs)} :
           i \in {j \in 1..Len(transactions) : transactions[j].state = "confirmed"}}

\* The transactions a block may hold after its coinbase, in every order.
Bodies ==
    UNION {{body \in [1..k -> Candidates] :
                \A i, j \in 1..k : body[i] = body[j] => i = j} :
           k \in 0..(MaxBlockTxs - 1)}

\* The body makes a valid block on the confirmed chain: none of its
\* transactions is confirmed already, and each input spends an output that
\* exists, is confirmed or made earlier in the block, and is unspent.
Valid(body) ==
    \A k \in 1..Len(body) :
        /\ ~is_confirmed(body[k])
        /\ \A n \in 1..Len(Tx(body[k]).inputs) :
             LET prevout == Tx(body[k]).inputs[n].previous_output
             IN /\ \/ is_confirmed(prevout.hash)
                   \/ \E j \in 1..(k - 1) : body[j] = prevout.hash
                /\ prevout.index < Len(Tx(prevout.hash).outputs)
                /\ prevout \notin SpentOutputs
                /\ \A j \in 1..(k - 1) : \A m \in 1..Len(Tx(body[j]).inputs) :
                     Tx(body[j]).inputs[m].previous_output # prevout

\* The block at the height: its coinbase and the body.  When populated, the
\* caller has set validation.offset of each transaction the store holds.
Block(height, body, populated) ==
    [i \in 1..(Len(body) + 1) |->
        LET hash == IF i = 1 THEN coinbase_hash(height) ELSE body[i - 1]
        IN [hash |-> hash,
            offset |-> IF populated THEN lookup_map_find(Db, hash) ELSE not_found]]

\* A step of the sequential run: the sub-databases become db, the block
\* index becomes index, the run enters the phase and the flush lock becomes
\* sentinel.
ChainStep(db, index, phase, sentinel) ==
    /\ transactions' = db.transactions
    /\ spends' = db.spends
    /\ history' = db.history
    /\ cache' = db.cache
    /\ blocks' = index
    /\ top' = [top EXCEPT !["block"] = Len(index) - 1]
    /\ chain' = [chain EXCEPT !.phase = phase, !.lost = db.lost]
    /\ flush_lock' = sentinel
    /\ UNCHANGED <<write_mutex, thread, sync, stale, writing, aborted, handled,
                   handler_locked, index_addresses, indexes, call, tableVars,
                   metaVars, storeVars>>

\* data_base::push(block, height) of a valid block on the top of the chain,
\* begin_write and end_write succeeding.  A push that fails after
\* begin_write returns without end_write.
push_block_at_top ==
    /\ chain.phase = "push"
    /\ ~chain.lost
    /\ Len(blocks) - Len(chain.before.blocks) < MaxBlocks
    /\ \E body \in Bodies, populated \in BOOLEAN :
         /\ Valid(body)
         /\ IF verify_push_block(Len(body) + 1, top["block"] + 1, TRUE) # "success"
            THEN ChainStep(Db, blocks, "push_failed", flush_lock)
            ELSE \E pushed \in {push_transactions(Db,
                                    Block(top["block"] + 1, body, populated),
                                    top["block"] + 1, 0, 1)} :
                   IF ~pushed.db.ok
                   THEN ChainStep(pushed.db, blocks, "push_failed",
                                  begin_write(TRUE))
                   ELSE \* blocks_->store(block, height); commit()
                        ChainStep(pushed.db,
                                  Append(blocks, [i \in 1..Len(pushed.txs) |->
                                                     pushed.txs[i].offset]),
                                  "push", end_write(TRUE))

\* data_base::pop(out_block, height) of the top block, begin_write and
\* end_write succeeding.  A pop that fails after begin_write returns
\* without end_write.
pop_block_at_top ==
    /\ chain.phase \in {"push", "pop"}
    /\ ~chain.lost
    /\ Len(blocks) > Len(chain.before.blocks)
    /\ \E result \in {blocks[top["block"] + 1]} :
         IF verify_top(top["block"], "block") # "success"
         THEN ChainStep(Db, blocks, "pop_failed", flush_lock)
         ELSE IF \E i \in 1..Len(result) : ~Intact(transactions[result[i]])
         THEN \* the transactions read from the store are not those pushed
              ChainStep([Db EXCEPT !.lost = TRUE], blocks, "pop_failed",
                        begin_write(TRUE))
         ELSE \E popped \in {pop_transactions(Db, to_transactions(result), 0, 1)} :
                IF ~popped.ok
                THEN ChainStep(popped, blocks, "pop_failed", begin_write(TRUE))
                ELSE \* blocks_->unconfirm(height, true); commit()
                     ChainStep(popped, SubSeq(blocks, 1, Len(blocks) - 1),
                               "pop", end_write(TRUE))

ChainNext ==
    \/ push_block_at_top
    \/ pop_block_at_top

(***************************************************************************)
(* The synchronous writers called one after another with any arguments:     *)
(* each action is one call from its lock to its return, begin_write and     *)
(* end_write succeeding.  call keeps the arguments and the returned code.   *)
(***************************************************************************)
null_hash == "null_hash"

\* The heights the callers pass.
CallHeights == 0..(MaxTop + 1)

\* The hashes a header names as its previous block.
Hashes == {null_hash} \cup {coinbase_hash(h) : h \in 0..MaxTop}

\* The fork sets push(tx, forks) is called with.
Forks == {1, unverified}

\* A call of the writer op, before its preflight; n counts the calls and
\* slabs is the number of slabs the transaction file holds at the call.
Call(op, height, previous, txs, forks) ==
    [op |-> op, height |-> height, previous |-> previous, txs |-> txs,
     forks |-> forks, ec |-> "success", began |-> FALSE, n |-> call.n + 1,
     size |-> 0, incoming |-> <<>>, outgoing |-> <<>>, was |-> <<>>,
     waiting |-> FALSE, slabs |-> Len(transactions), point |-> null_point,
     stage |-> "none", block |-> <<>>, committed |-> <<>>]

\* get_previous_block: null_hash at height 0, else the hash of the block the
\* index holds at height - 1 (of an empty result when it holds none).
get_previous_block(height, i) ==
    IF height = 0 \/ height > Len(indexes[i]) THEN null_hash
    ELSE indexes[i][height]

\* A step of the call c leaves the sub-databases db, the indexes idx, the
\* transaction offsets offsets of the block index, the flush lock sentinel
\* and write_mutex_ held by holder (0 when free).
Leaves(c, db, idx, offsets, sentinel, holder) ==
    /\ call' = c
    /\ transactions' = db.transactions
    /\ spends' = db.spends
    /\ history' = db.history
    /\ cache' = db.cache
    /\ blocks' = offsets
    /\ indexes' = idx
    /\ top' = [i \in {"header", "block"} |-> Len(idx[i]) - 1]
    /\ chain' = [chain EXCEPT !.lost = db.lost]
    /\ flush_lock' = sentinel
    /\ write_mutex' = holder
    /\ UNCHANGED <<thread, sync, stale, writing, aborted, handled,
                   handler_locked, index_addresses, tableVars, metaVars,
                   storeVars>>

\* The call c returns c.ec and leaves the sub-databases db, the indexes idx
\* and the transaction offsets offsets of the block index.  began says that
\* begin_write was called; end_write is called on success only.  The lock of
\* write_mutex_ is released.
Returns(c, db, idx, offsets) ==
    Leaves(c, db, idx, offsets,
           IF ~c.began THEN flush_lock
           ELSE IF c.ec = "success" THEN end_write(TRUE)
           ELSE begin_write(TRUE),
           0)

\* The preflight of the call c returned ec.
Rejected(c, ec) == Returns([c EXCEPT !.ec = ec], Db, indexes, blocks)

\* data_base::push(const header&, size_t): the header of the block whose
\* coinbase is coinbase_hash(height), naming previous as its parent.
call_push_header ==
    /\ call.n < MaxCalls
    /\ write_mutex = 0
    /\ \E height \in CallHeights, previous \in Hashes :
        LET c == Call("push_header", height, previous, <<>>, 0)
            ec == verify_push_header(height,
                      get_previous_block(height, "header") = previous)
        IN IF ec # "success" THEN Rejected(c, ec)
           ELSE /\ height <= MaxTop
                \* blocks_->store(header, height); blocks_->commit()
                /\ Returns([c EXCEPT !.began = TRUE], Db,
                           [indexes EXCEPT !.header =
                               Append(@, coinbase_hash(height))],
                           blocks)

\* data_base::push(const block&, size_t): a block without transactions, or
\* the block of a coinbase and a body that is valid on the chain.
call_push_block ==
    /\ call.n < MaxCalls
    /\ write_mutex = 0
    /\ \E height \in CallHeights, previous \in Hashes, body \in Bodies,
          coinbase \in BOOLEAN, populated \in BOOLEAN :
        LET txs == IF coinbase THEN Block(height, body, populated) ELSE <<>>
            c == Call("push_block", height, previous,
                      [i \in 1..Len(txs) |-> txs[i].hash], 0)
            ec == verify_push_block(Len(txs), height,
                      get_previous_block(height, "block") = previous)
        IN IF ec # "success"
           THEN body = <<>> /\ ~populated /\ Rejected(c, ec)
           ELSE /\ height <= MaxTop
                /\ Len(transactions) + Len(txs) <= MaxSlabs
                /\ Valid(body)
                /\ \E pushed \in {push_transactions(Db, txs, height, 0, 1)} :
                     IF ~pushed.db.ok
                     THEN Returns([c EXCEPT !.ec = "operation_failed",
                                            !.began = TRUE],
                                  pushed.db, indexes, blocks)
                     ELSE \* blocks_->store(block, height); commit()
                          Returns([c EXCEPT !.began = TRUE], pushed.db,
                                  [indexes EXCEPT !.block =
                                      Append(@, coinbase_hash(height))],
                                  Append(blocks, [i \in 1..Len(pushed.txs) |->
                                                     pushed.txs[i].offset]))

\* blocks_->get(height, block_index): the transaction offsets of the block at
\* the height; a header of the header index has none.
block_result(height, i) == IF i = "block" THEN blocks[height + 1] ELSE <<>>

\* The shape of pop(chain::block&, size_t) and pop(chain::header&, size_t).
call_pop(op, i) ==
    /\ call.n < MaxCalls
    /\ write_mutex = 0
    /\ \E height \in CallHeights :
        LET c == Call(op, height, "none", <<>>, 0)
            ec == verify_top(height, i)
        IN IF ec # "success" THEN Rejected(c, ec)
           ELSE \E result \in {block_result(height, i)} :
                \E popping \in {[c EXCEPT !.began = TRUE,
                                   !.txs = [n \in 1..Len(result) |->
                                               transactions[result[n]].hash]]} :
                  IF \E n \in 1..Len(result) : ~Intact(transactions[result[n]])
                  THEN \* the transactions read are not those pushed
                       Returns([popping EXCEPT !.ec = "operation_failed"],
                               [Db EXCEPT !.lost = TRUE], indexes, blocks)
                  ELSE \E popped \in {pop_transactions(Db,
                                          to_transactions(result), 0, 1)} :
                         IF ~popped.ok
                         THEN Returns([popping EXCEPT !.ec = "operation_failed"],
                                      popped, indexes, blocks)
                         ELSE \* blocks_->unconfirm(height, index); commit()
                              Returns(popping, popped,
                                      [indexes EXCEPT ![i] =
                                          SubSeq(@, 1, Len(@) - 1)],
                                      IF i = "block"
                                      THEN SubSeq(blocks, 1, Len(blocks) - 1)
                                      ELSE blocks)

\* data_base::pop(chain::block&, size_t)
call_pop_block == call_pop("pop_block", "block")

\* data_base::pop(chain::header&, size_t)
call_pop_header == call_pop("pop_header", "header")

\* output.validation.spent(fork_height, candidate) for a fork height of
\* max_size_t, on the four bytes of the spender height as read: the spender
\* height is not not_spent.
spent(spender_height) == spender_height # little_endian_4(not_spent)

\* The loop of is_spent over the n outputs from the offset pos: each output
\* is read whole by output::factory(deserial, false) as index_spend:1,
\* spender_height:4, value:8, script:varint, and then asked whether it is
\* spent.  A script of less than 0xfd bytes is read from the bytes that
\* follow, in the record or after it.  A size byte of 0xff is followed by a
\* size of 8 bytes: read_bytes of a size of 2^32 or more throws.  "spent",
\* "unspent", "throws", or "lost" when the size or the spender height is read
\* after the outputs of the record, from bytes this model does not hold.
RECURSIVE search_outputs(_, _, _)
search_outputs(data, pos, n) ==
    LET at == pos + indexed_size + height_size + value_size
    IN IF n = 0 THEN "spent"
       ELSE IF at >= Len(data) THEN "lost"
       ELSE IF data[at + 1] = 255
       THEN IF at + 9 <= Len(data)
               /\ \E i \in (at + 6)..(at + 9) : data[i] # 0
            THEN "throws" ELSE "lost"
       ELSE IF data[at + 1] >= 253 THEN "lost"
       ELSE IF ~spent(SubSeq(data, pos + 2, pos + 5)) THEN "unspent"
       ELSE search_outputs(data, at + 1 + data[at + 1], n - 1)

\* transaction_result::is_spent(fork_height = max_size_t): false unless the
\* state is confirmed, else whether the search finds no unspent output.
is_spent(slab) ==
    IF slab.state # "confirmed" THEN "unspent"
    ELSE search_outputs(slab.data, 0, slab.outputs)

\* data_base::push(const transaction&, uint32_t)
call_push_tx ==
    /\ call.n < MaxCalls
    /\ write_mutex = 0
    /\ \E hash \in Candidates \cup {coinbase_hash(1)}, forks \in Forks :
        LET c == Call("push_tx", 0, "none", <<hash>>, forks)
            result == lookup_map_find(Db, hash)
        IN \E found \in {IF result = not_found THEN "spent"
                          ELSE is_spent(transactions[result])} :
           \* a search that reads what follows the outputs of the record
           \* finds whatever is there, or throws on the size of a script
           \E unspent \in IF found = "lost" THEN {"spent", "unspent", "throws"}
                           ELSE {found} :
           \E ec \in {verify_push_tx(result # not_found /\ unspent = "unspent")} :
           IF unspent = "throws" THEN Rejected(c, "throws")
           ELSE IF ec # "success" THEN Rejected(c, ec)
           ELSE /\ Len(transactions) < MaxSlabs
                \* transactions_->store(tx, forks, unconfirmed, pooled)
                /\ Returns([c EXCEPT !.began = TRUE],
                           transaction_database_store(Db,
                               [hash |-> hash, offset |-> not_found],
                               forks, unconfirmed, "pooled"),
                           indexes, blocks)

\* The lists a caller may pass as outgoing: a new list, or the list an
\* earlier reorganize left a block in.
Outgoings == {<<>>, <<coinbase_hash(MaxTop + 1)>>}

\* The orders in which the tasks of the buckets may store the count
\* transactions of a block: the task of bucket b stores the positions b,
\* b + buckets, ... in this order, and the tasks run concurrently.
Interleavings(count, buckets) ==
    {order \in [1..count -> 0..(count - 1)] :
        /\ \A i, j \in 1..count : order[i] = order[j] => i = j
        /\ \A i, j \in 1..count :
              (i < j /\ order[i] % buckets = order[j] % buckets)
                  => order[i] < order[j]}

\* The tasks do_push_transactions(block, height, bucket, buckets) of a block
\* running in the given order of positions: the task of a bucket ends at its
\* first store that fails (failed holds the buckets that ended so), the
\* tasks of the other buckets go on.
RECURSIVE push_buckets(_, _, _, _, _)
push_buckets(pushed, height, order, buckets, failed) ==
    IF order = <<>>
    THEN [db |-> pushed.db, txs |-> pushed.txs, failed |-> failed]
    ELSE IF Head(order) % buckets \in failed
    THEN push_buckets(pushed, height, Tail(order), buckets, failed)
    ELSE LET next == push_transactions([pushed.db EXCEPT !.ok = TRUE],
                                       pushed.txs, height, Head(order),
                                       Len(pushed.txs))
         IN push_buckets(next, height, Tail(order), buckets,
                         IF next.db.ok THEN failed
                         ELSE failed \cup {Head(order) % buckets})

\* data_base::reorganize(fork_point, incoming, outgoing, dispatch, handler)
\* up to the dispatch of the first do_push: the lock of write_mutex_,
\* begin_write, and pop_above.  With blocks above the fork point pop_above
\* calls pop(block, top), which waits for the write_mutex_ its caller holds.
call_reorganize_block ==
    /\ call.n < MaxCalls
    /\ write_mutex = 0
    /\ \E height \in CallHeights \cup {max_size_t}, known \in BOOLEAN, size \in 0..MaxPushed,
          outgoing \in Outgoings :
        LET c == [Call("reorganize_block", height,
                       IF known /\ height < Len(indexes["block"])
                       THEN indexes["block"][height + 1] ELSE null_hash,
                       <<>>, 0)
                  EXCEPT !.size = size, !.outgoing = outgoing,
                         !.was = indexes["block"]]
            began == [c EXCEPT !.began = TRUE]
            ec == verify(height, TRUE, c.previous # null_hash)
        IN IF height > max_size_t - size
           THEN Rejected(c, "operation_failed")
           ELSE /\ Len(transactions) + size <= MaxSlabs
                /\ IF ec # "success"
                   THEN \* handle_pop(ec): handle_push(ec)
                        Returns([began EXCEPT !.ec = ec], Db, indexes, blocks)
                   ELSE IF top["block"] - height = 0
                   THEN IF size = 0
                        THEN \* push_next ends the loop: handle_push(success)
                             Returns(began, Db, indexes, blocks)
                        ELSE Leaves([began EXCEPT !.ec = "pending"], Db,
                                    indexes, blocks, begin_write(TRUE), 1)
                   ELSE \* blocks->clear(); pop(*next, top)
                        Leaves([began EXCEPT !.ec = "pending",
                                             !.outgoing = <<>>,
                                             !.waiting = TRUE],
                               Db, indexes, blocks, begin_write(TRUE), 1)

\* push_next for the next incoming block: do_push, the tasks of its buckets
\* in one of their orders, handle_do_push_transactions, and handle_push
\* after the last block or a failure.
call_do_push ==
    /\ call.op = "reorganize_block"
    /\ call.ec = "pending"
    /\ ~call.waiting
    /\ \E body \in Bodies, coinbase \in BOOLEAN, populated \in BOOLEAN,
          parent_ok \in BOOLEAN :
        LET height == call.height + 1 + Len(call.incoming)
            txs == IF coinbase THEN Block(height, body, populated) ELSE <<>>
            buckets == IF DispatchThreads < Len(txs) THEN DispatchThreads
                       ELSE Len(txs)
            ec == verify_push_block(Len(txs), height, parent_ok)
        IN IF ec # "success"
           THEN /\ body = <<>> /\ ~populated
                /\ Returns([call EXCEPT !.ec = ec], Db, indexes, blocks)
           ELSE /\ height <= MaxTop + 1
                /\ Len(transactions) + Len(txs)
                      + (call.size - Len(call.incoming) - 1) <= MaxSlabs
                /\ Valid(body)
                /\ \E order \in Interleavings(Len(txs), buckets) :
                   \E pushed \in {push_buckets([db |-> Db, txs |-> txs],
                                       height, order, buckets, {})} :
                     IF pushed.failed # {}
                     THEN Returns([call EXCEPT !.ec = "operation_failed",
                                               !.block = txs],
                                  [pushed.db EXCEPT !.ok = TRUE], indexes,
                                  blocks)
                     ELSE \E stored \in {[call EXCEPT !.block = txs,
                                            !.incoming = Append(@,
                                            [i \in 1..Len(txs) |-> txs[i].hash])]} :
                          \* blocks_->store(*block, height); commit()
                          IF Len(stored.incoming) < call.size
                          THEN Leaves(stored, pushed.db,
                                      [indexes EXCEPT !.block =
                                          Append(@, coinbase_hash(height))],
                                      Append(blocks, [i \in 1..Len(pushed.txs) |->
                                                         pushed.txs[i].offset]),
                                      flush_lock, write_mutex)
                          ELSE Returns([stored EXCEPT !.ec = "success"],
                                       pushed.db,
                                       [indexes EXCEPT !.block =
                                           Append(@, coinbase_hash(height))],
                                       Append(blocks, [i \in 1..Len(pushed.txs) |->
                                                          pushed.txs[i].offset]))

CallsNext ==
    \/ call_reorganize_block
    \/ call_do_push
    \/ call_push_header
    \/ call_push_block
    \/ call_pop_block
    \/ call_pop_header
    \/ call_push_tx

(***************************************************************************)
(* The transaction database called directly: store, pool, spend and         *)
(* get_output one after another with any arguments.  call keeps the         *)
(* arguments and, in ec, the value returned.                                *)
(***************************************************************************)
\* The transactions stored, the states they are stored in, and the heights
\* (or forks) and spender heights passed.
StoredTxs == {"f", "a", "p"}
States == {"pooled", "indexed", "confirmed"}
StoreHeights == 0..MaxTop
SpenderHeights == (1..MaxTop) \cup {not_spent}

\* The points asked for: the outputs of f and a, an index f does not have,
\* an output of a transaction never stored, and the null point.
Points ==
    {Point("f", 0), Point("f", 1), Point("f", 2), Point("a", 0), Point("a", 1),
     Point("c", 0), null_point}

\* The value a call of the transaction database returned.
bool(ok) == IF ok THEN "true" ELSE "false"

\* The call c on the transaction database leaves it as db and returns ok.
Answers(c, db, ok) ==
    Leaves([c EXCEPT !.ec = bool(ok)], [db EXCEPT !.ok = TRUE], indexes, blocks,
           flush_lock, write_mutex)

\* transaction_database::store(tx, height, position, state), with
\* tx.validation.offset set by the caller (populated) or not.
call_store ==
    /\ call.n < MaxOps
    /\ Len(transactions) < MaxSlabs
    /\ \E hash \in StoredTxs, height \in StoreHeights, state \in States,
          populated \in BOOLEAN :
        LET position == IF state # "confirmed" THEN unconfirmed
                        ELSE IF is_coinbase(hash) THEN 0 ELSE 1
            tx == [hash |-> hash,
                   offset |-> IF populated THEN lookup_map_find(Db, hash)
                              ELSE not_found]
        IN \E db \in {transaction_database_store(Db, tx, height, position,
                                                  state)} :
             Answers([Call("store", height, state, <<hash>>, 0)
                         EXCEPT !.point = Point(hash, tx.offset)],
                     db, db.ok)

\* transaction_database::pool(tx) of a stored transaction.
call_pool ==
    /\ call.n < MaxOps
    /\ \E hash \in StoredTxs :
        /\ lookup_map_find(Db, hash) # not_found
        /\ \E db \in {transaction_database_pool(Db,
                           [hash |-> hash,
                            offset |-> lookup_map_find(Db, hash)])} :
             Answers(Call("pool", 0, "none", <<hash>>, 0), db, db.ok)

\* transaction_database::spend(point, spender_height)
call_spend ==
    /\ call.n < MaxOps
    /\ \E point \in Points, spender_height \in SpenderHeights :
        \E db \in {transaction_database_spend(Db, point, spender_height)} :
          Answers([Call("spend", spender_height, "none", <<>>, 0)
                      EXCEPT !.point = point],
                  db, db.ok)

\* transaction_database::get_output(point, fork_height)
call_get_output ==
    /\ call.n < MaxOps
    /\ \E point \in Points, fork_height \in ForkPoints :
        Answers([Call("get_output", fork_height, "none", <<>>, 0)
                    EXCEPT !.point = point],
                Db, get_output(point, fork_height))

RecordsNext ==
    \/ call_store
    \/ call_pool
    \/ call_spend
    \/ call_get_output

(***************************************************************************)
(* data_base::push(const block&, size_t) one write at a time: what a reader *)
(* of the sub-databases finds while the writer is in its critical section.  *)
(***************************************************************************)
\* The sub-databases in the order a commit that began with the block index
\* would take them.
commit_order_blocks_first ==
    <<"blocks", "transactions">>
        \o (IF index_addresses THEN <<"spends", "history", "stealth">> ELSE <<>>)

\* data_base::commit(): the sub-databases in the order their commit() is
\* called.
commit_order ==
    (IF index_addresses THEN <<"spends", "history", "stealth">> ELSE <<>>)
        \o <<"transactions", "blocks">>

\* push(block, height) up to begin_write: the lock of write_mutex_, the
\* preflight and begin_write, for a valid block on the top of the block
\* index.
push_begin_write ==
    /\ call.n < MaxCalls
    /\ write_mutex = 0
    /\ top["block"] + 1 <= MaxTop
    /\ \E body \in Bodies, populated \in BOOLEAN :
        LET height == top["block"] + 1
            txs == Block(height, body, populated)
            c == Call("push_block", height, get_previous_block(height, "block"),
                      [i \in 1..Len(txs) |-> txs[i].hash], 0)
        IN /\ Valid(body)
           /\ Len(transactions) + Len(txs) <= MaxSlabs
           /\ verify_push_block(Len(txs), height, TRUE) = "success"
           /\ Leaves([c EXCEPT !.began = TRUE, !.ec = "pending",
                               !.stage = "push_transactions", !.block = txs],
                     Db, indexes, blocks, begin_write(TRUE), 1)

\* One pass of the loop of push_transactions(block, height): the store of
\* the transaction at the next position and its rows of the indexes.
push_transactions_step ==
    /\ call.stage = "push_transactions"
    /\ call.size < Len(call.block)
    /\ \E pushed \in {push_transactions(Db, call.block, call.height, call.size,
                                        Len(call.block))} :
         IF ~pushed.db.ok
         THEN Returns([call EXCEPT !.ec = "operation_failed", !.stage = "none"],
                      pushed.db, indexes, blocks)
         ELSE Leaves([call EXCEPT !.size = @ + 1, !.block = pushed.txs],
                     pushed.db, indexes, blocks, flush_lock, 1)

\* blocks_->store(block, height), when push_transactions has returned true.
push_blocks_store ==
    /\ call.stage = "push_transactions"
    /\ call.size = Len(call.block)
    /\ Leaves([call EXCEPT !.stage = "commit"], Db,
              [indexes EXCEPT !.block = Append(@, coinbase_hash(call.height))],
              Append(blocks, [i \in 1..Len(call.block) |-> call.block[i].offset]),
              flush_lock, 1)

\* commit(): the commit() of the next sub-database.
commit_step ==
    /\ call.stage = "commit"
    /\ Len(call.committed) < Len(commit_order)
    /\ Leaves([call EXCEPT !.committed =
                   Append(@, commit_order[Len(call.committed) + 1])],
              Db, indexes, blocks, flush_lock, 1)

\* return end_write() ? error::success : error::operation_failed, and the
\* release of write_mutex_.
push_end_write ==
    /\ call.stage = "commit"
    /\ Len(call.committed) = Len(commit_order)
    /\ Returns([call EXCEPT !.ec = "success", !.stage = "none"],
               Db, indexes, blocks)

StepsNext ==
    \/ push_begin_write
    \/ push_transactions_step
    \/ push_blocks_store
    \/ commit_step
    \/ push_end_write
    \/ call_pop_block

(***************************************************************************)
(* Specifications.                                                          *)
(***************************************************************************)
\* The table as the coordinator's specifications leave it: a slab table
\* nobody calls.
TableIdle == TableInit /\ kind = "slab"

\* The record as the other specifications leave it: pooled, nobody calling.
MetaIdle == MetaInit /\ triple.state = "pooled"

Init == CoordInit /\ TableIdle /\ MetaIdle /\ ChainIdle /\ StoreInit

Next == CoordNext

\* The coordinator under any interleaving of its callers.
Spec == Init /\ [][Next]_vars

\* The coordinator with every caller thread scheduled again and again, and a
\* mutex that is handed to a thread that keeps waiting for it.
FairSpec ==
    Init /\ [][Next]_vars
         /\ \A t \in Threads : SF_vars(ThreadNext(t))

InitTable == CoordInit /\ TableInit /\ MetaIdle /\ ChainIdle /\ StoreInit

NextTable == TableNext

\* One hash table, slab or record, under concurrent store, find and update,
\* and unlink between stores.
SpecTable == InitTable /\ [][NextTable]_vars

InitMeta == CoordInit /\ TableIdle /\ MetaInit /\ ChainIdle /\ StoreInit

NextMeta == MetaNext

\* One linked transaction record under concurrent get, spend and confirm.
SpecMeta == InitMeta /\ [][NextMeta]_vars

InitChain == CoordAt(1) /\ TableIdle /\ MetaIdle /\ ChainInit /\ StoreInit

NextChain == ChainNext

\* The sub-databases under blocks pushed one after another on the chain the
\* store starts with, and then popped from the top.
SpecChain == InitChain /\ [][NextChain]_vars

\* The store before create(genesis): no block, no header, no transaction.
ChainEmpty ==
    /\ index_addresses \in BOOLEAN
    /\ transactions = <<>>
    /\ blocks = <<>>
    /\ spends = <<>>
    /\ history = [a \in Addresses |-> <<>>]
    /\ indexes = [i \in {"header", "block"} |-> <<>>]
    /\ cache = <<>>
    /\ chain = [phase |-> "push", lost |-> FALSE,
                before |-> [transactions |-> transactions, blocks |-> blocks,
                            spends |-> spends, history |-> history]]
    /\ call = NoCall

\* Writer calls one after another, on the empty store and on the store that
\* holds the genesis block and the block of f.
InitCalls ==
    /\ TableIdle /\ MetaIdle
    /\ \/ CoordAt(-1) /\ ChainEmpty
       \/ CoordAt(1) /\ \E indexing \in BOOLEAN : ChainAt(indexing, <<>>)
    /\ StoreInit

NextCalls == CallsNext

SpecCalls == InitCalls /\ [][NextCalls]_vars

\* Calls on the transaction database of an empty store, with and without
\* address indexing.
InitRecords == TableIdle /\ MetaIdle /\ CoordAt(-1) /\ ChainEmpty /\ StoreInit

NextRecords == RecordsNext

SpecRecords == InitRecords /\ [][NextRecords]_vars

\* Pushes of blocks one write at a time, and pops, on the store that holds
\* the genesis block and the block of f.
InitSteps ==
    /\ TableIdle /\ MetaIdle /\ CoordAt(1)
    /\ \E indexing \in BOOLEAN : ChainAt(indexing, <<>>)
    /\ StoreInit

NextSteps == StepsNext

SpecSteps == InitSteps /\ [][NextSteps]_vars

\* The push of the incoming blocks of a block reorganize whose fork point is
\* the top of the block index: reorganize has locked write_mutex_ and begun
\* the write, pop_above has found no block to pop, and push_all has called
\* push_next for the first of one to MaxPushed incoming blocks.
InitPushAll ==
    /\ TableIdle /\ MetaIdle /\ ChainIdle /\ StoreInit
    /\ \E f \in Heights, n \in 1..MaxPushed :
         /\ top = [i \in {"header", "block"} |-> f]
         /\ thread = [t \in Threads |->
                         IF t = 1
                         THEN push_next([Idle EXCEPT !.op = "reorganize_block",
                                                     !.fork = f, !.incoming = n,
                                                     !.began = TRUE],
                                        "success", 0)
                         ELSE Idle]
    /\ write_mutex = 1
    /\ flush_lock = TRUE
    /\ writing = [t \in Threads |-> t = 1]
    /\ sync = [t \in Threads |-> NoSync]
    /\ stale = 0
    /\ aborted = FALSE
    /\ handled = [t \in Threads |-> 0]
    /\ handler_locked = [t \in Threads |-> FALSE]

NextPushAll ==
    \/ \E t \in Threads : do_push(t)
    \/ \E t \in Threads, b \in 0..(DispatchThreads - 1) : do_push_transactions(t, b)
    \/ \E t \in Threads : handle_push(t)
    \/ stale_task

SpecPushAll == InitPushAll /\ [][NextPushAll]_vars

\* create, open and close of a data_base, close being called by any thread.
InitBase ==
    /\ TableIdle /\ MetaIdle /\ CoordAt(-1) /\ process = Running /\ BaseInit
    /\ FileIdle
    /\ \E indexing \in BOOLEAN : ChainAt(indexing, <<>>)

NextBase == BaseNext

SpecBase == InitBase /\ [][NextBase]_vars

\* A memory-mapped file of 1 to MaxFile bytes under calls of reserve.
InitFile ==
    /\ TableIdle /\ MetaIdle /\ ChainIdle /\ CoordAt(-1)
    /\ process = Running /\ base = Opened
    /\ \E size \in 1..MaxFile : file = Mapped(size)

NextFile == call_reserve

SpecFile == InitFile /\ [][NextFile]_vars

\* The coordinator up to the first stop of the process, and the opens of the
\* store that follow it.
InitStore == Init

NextStore ==
    \/ CoordNext
    \/ stop
    \/ open
    \/ remove_flush_lock

SpecStore == InitStore /\ [][NextStore]_vars

(***************************************************************************)
(* Properties of the coordinator.                                           *)
(***************************************************************************)
\* C1: in every reachable state the flush-lock sentinel exists exactly when
\* some write is between its begin_write and its end_write, or a write has
\* aborted with a failure after begin_write.
FlushLockWhileWriting ==
    flush_lock <=> ((\E t \in Threads : writing[t]) \/ aborted)

\* Thread t is within a top-level write: a push or pop past begin_write, a
\* block reorganize from begin_write to handle_push, a header reorganize from
\* its first pop or push to its last.
InWrite(t) ==
    \/ thread[t].cur # "none" /\ thread[t].pc \in {"body", "end", "failed"}
    \/ thread[t].op = "reorganize_block" /\ thread[t].began
         /\ thread[t].pc # "handle_push_end"
    \/ thread[t].op = "reorganize_header" /\ thread[t].began
         /\ thread[t].cur # "none"

\* C2: write_mutex is held by the writer across the entire duration of every
\* top-level write, each reorganize from its first pop to its last push
\* included.
WriteMutexHeldAcrossWrite ==
    \A t \in Threads : InWrite(t) => write_mutex = t

\* C3: every call of the block reorganize eventually invokes the caller's
\* handler, also when a block above the fork point must be popped.
BlockReorganizeCompletes ==
    \A t \in Threads :
        (thread[t].op = "reorganize_block") ~> (handled[t] = 1)

\* Thread t runs a block reorganize, or its last call was one.
BlockReorganize(t) ==
    \/ thread[t].op = "reorganize_block"
    \/ thread[t].op = "idle" /\ thread[t].last = "reorganize_block"

\* C4: on every path of the block reorganize the handler is invoked at most
\* once, never while write_mutex is held by the reorganize, and write_mutex is
\* not left locked by it once the handler has been invoked.
BlockHandlerOnceUnlocked ==
    \A t \in Threads :
        BlockReorganize(t) =>
            /\ handled[t] <= 1
            /\ ~handler_locked[t]
            /\ (handled[t] = 1 => thread[t].op = "idle" /\ write_mutex # t)

\* A block reorganize pushed its incoming block and completed with success.
BlockReorganizeHandled ==
    \E t \in Threads :
        /\ thread[t].op = "idle"
        /\ thread[t].last = "reorganize_block"
        /\ thread[t].ec = "success"
        /\ handled[t] = 1
        /\ top["block"] = MaxHeight + 1

\* C10: when a step of push(block), pop(block) or pop(header) failed after
\* begin_write, the writer returns operation_failed without end_write, and the
\* flush-lock sentinel is present when it returns.
SentinelRemainsOnFailure ==
    \A t \in Threads :
        (thread[t].cur \in {"push_block", "pop_block", "pop_header"}
            /\ thread[t].pc = "failed") => flush_lock

\* C11: if the process stops between begin_write and end_write of a write,
\* the flush-lock sentinel is present afterwards and no open() succeeds until
\* the sentinel has been removed externally.
StopInWriteLeavesSentinel ==
    (process.in_write /\ ~process.removed)
        => (flush_lock /\ process.state # "opened")

(***************************************************************************)
(* Properties of the hash tables.                                           *)
(***************************************************************************)
Range(seq) == {seq[i] : i \in 1..Len(seq)}

Reverse(seq) == [i \in 1..Len(seq) |-> seq[Len(seq) + 1 - i]]

\* Row p was stored and an unlink has removed it.
Unlinked(p) ==
    /\ Allocated(p)
    /\ p \notin Range(linked)
    /\ \A w \in Workers : ~(worker[w].op = "store" /\ worker[w].position = p)

NoUnlink == \A i \in 1..Len(rows) : ~Unlinked(Position(i))

\* The row that the latest store of the key linked and no unlink removed.
Latest(key) == IF LatestOf(key) = 0 THEN nullptr ELSE linked[LatestOf(key)]

\* The linked rows of bucket b, the latest first.
Stored(b) ==
    LET in_bucket(p) == bucket_index(Row(p).key) = b
    IN Reverse(SelectSeq(linked, in_bucket))

Written(p) ==
    Row(p).key # NoKey /\ Row(p).value # NoValue /\ Row(p).next # Unset

\* C7: for a slab and a record table, after any sequence of stores with no
\* unlink, find(key) returns the most recently stored row with that key, also
\* behind rows of other keys of the bucket, and nullptr for a key never stored.
FindReturnsLatestStored ==
    NoUnlink => \A k \in Keys : find(k) = Latest(k)

\* A key stored twice is found at its second row, behind a later row of another
\* key of the same bucket, while another key was never stored.
FoundBehindOtherKey ==
    /\ NoUnlink
    /\ \E k \in Keys :
        /\ Cardinality({i \in 1..Len(linked) : Row(linked[i]).key = k}) = 2
        /\ find(k) = linked[LatestOf(k)]
        /\ read_bucket_value(k) # find(k)
    /\ \E k \in Keys : find(k) = nullptr /\ LatestOf(k) = 0

\* C8: whatever stores run next to a find or update, every row reachable from
\* a bucket head, and every row the find or update is at, has its key, value
\* and next link written, and every row a store has linked stays reachable
\* from its bucket head.
ReachableRowsWritten ==
    /\ \A b \in 0..(Buckets - 1) : \A p \in Range(Bucket(b)) : Written(p)
    /\ \A w \in Workers :
        (worker[w].pc = "seek" /\ worker[w].current # empty) =>
            Allocated(worker[w].current) /\ Written(worker[w].current)
    /\ \A p \in Range(linked) : p \in Range(Bucket(bucket_index(Row(p).key)))

\* A find or update is at a row of a bucket while a store into the same bucket
\* holds the mutex with its row's next link written and the header not yet.
SeekDuringStore ==
    \E w, v \in Workers :
        /\ worker[w].pc = "seek"
        /\ worker[w].current # empty
        /\ worker[v].op = "store"
        /\ worker[v].pc = "link"
        /\ bucket_index(worker[v].key) = bucket_index(worker[w].key)
        /\ Row(worker[v].position).next # empty

\* C9: rows of one key stay chained, the latest first; unlink(key) of a stored
\* key returns true and removes only the latest row of that key, so that find
\* returns the one before it, and the other rows of the bucket stay chained in
\* their order.
UnlinkRemovesLatest ==
    ~wild =>
        /\ \A b \in 0..(Buckets - 1) : Bucket(b) = Stored(b)
        /\ \A k \in Keys : find(k) = Latest(k)
        /\ \A w \in Workers :
            (worker[w].last = "unlink" /\ worker[w].present) => worker[w].result

\* An unlink returned true and removed the later of two rows of a key: the
\* earlier one is found, next to a row of another key in the same bucket.
UnlinkedSecondRow ==
    \E w \in Workers, k \in Keys :
        /\ worker[w].last = "unlink" /\ worker[w].result /\ worker[w].present
        /\ find(k) # nullptr
        /\ \E p \in Range(Bucket(bucket_index(k))) : Row(p).key # k
        /\ \E i \in 1..Len(rows) :
            /\ Unlinked(Position(i))
            /\ rows[i].key = k
            /\ Index(find(k)) < i

(***************************************************************************)
(* Properties of the transaction metadata.                                  *)
(***************************************************************************)
Reading(c) ==
    client[c].op \in {"get_offset", "get_hash", "spend"}
        /\ client[c].pc \in {"height", "position", "state", "unlock"}

\* C6: the triple a get or spend returns next to confirm calls is the record's
\* triple of before its call or one a concurrent confirm wrote, never a mix of
\* the fields of two; every read of the triple happens with metadata_mutex
\* held shared and every rewrite with it held exclusively.
TripleReadWhole ==
    \A c \in Clients :
        /\ (client[c].op # "confirm" /\ client[c].pc \in {"unlock", "return"})
                => client[c].read \in during[c]
        /\ Reading(c) => (c \in metadata_mutex.shared /\ metadata_mutex.exclusive = 0)
        /\ Rewriting(c) => (metadata_mutex.exclusive = c /\ metadata_mutex.shared = {})

\* A get that was called before a confirm took the mutex returns the triple
\* that confirm wrote, which differs from the one before in all three fields.
ReadAfterConfirm ==
    \E c \in Clients :
        /\ client[c].op \in {"get_offset", "get_hash"}
        /\ client[c].pc = "return"
        /\ Cardinality(during[c]) = 2
        /\ client[c].read = triple
        /\ \E old \in during[c] :
            /\ old.height # triple.height
            /\ old.position # triple.position
            /\ old.state # triple.state

(***************************************************************************)
(* Properties of sequential push and pop.                                   *)
(***************************************************************************)
\* The spender heights transaction_result::output reports for the outputs
\* of a slab, as the four bytes read.
spender_heights(slab) ==
    [i \in 1..slab.outputs |->
        LET output == transaction_result_output(slab, i - 1)
        IN IF output = <<>> THEN <<>> ELSE output[2]]

\* The sub-databases are as the run found them: the block index, the spend
\* rows and the history rows are the same, every transaction the store held
\* has the triple and the output spender heights it had, and a transaction
\* the store did not hold is not confirmed.
Restored ==
    LET before == chain.before
        hashes == {transactions[i].hash : i \in 1..Len(transactions)}
    IN /\ blocks = before.blocks
       /\ spends = before.spends
       /\ history = before.history
       /\ \A hash \in hashes :
            LET was == lookup_map_find(before, hash)
                now == transactions[lookup_map_find(Db, hash)]
            IN IF was = not_found THEN now.state # "confirmed"
               ELSE /\ now.height = before.transactions[was].height
                    /\ now.position = before.transactions[was].position
                    /\ now.state = before.transactions[was].state
                    /\ spender_heights(now) =
                       spender_heights(before.transactions[was])

Untouched ==
    UNCHANGED <<transactions, blocks, spends, history, indexes, top, flush_lock>>

\* C12: push(header, height) returns store_block_invalid_height unless height
\* is the header-index top + 1 (0 when the header index is empty), and
\* otherwise store_block_missing_parent unless header.previous_block_hash is
\* the hash of the header at height - 1 (null_hash when height is 0); on
\* either error no sub-database is written and begin_write is not called.
PushHeaderPreflight ==
    [][call'.op = "push_header" =>
         LET next == Len(indexes.header)
             parent == IF call'.height = 0 THEN null_hash
                       ELSE indexes.header[call'.height]
         IN /\ (call'.ec = "store_block_invalid_height")
                   <=> (call'.height # next)
            /\ (call'.height = next) =>
                   ((call'.ec = "store_block_missing_parent")
                       <=> (call'.previous # parent))
            /\ (call'.ec \in {"store_block_invalid_height",
                               "store_block_missing_parent"})
                   => (~call'.began /\ Untouched)]_vars

\* A header was pushed at the next height above a stored header, naming
\* another block as its parent.
HeaderPushedOnWrongParent ==
    /\ call.op = "push_header"
    /\ call.height > 0
    /\ call.ec = "store_block_missing_parent"

\* C13: push(block, height) returns empty_block when the block has no
\* transactions, else store_block_invalid_height when height is not the
\* block-index top + 1 (0 on an empty index), else store_block_missing_parent
\* when the parent hash is not that of the block at height - 1, the checks
\* being made in that order; on any of these errors no tx record, spender
\* height, index entry or block record changes and the flush lock is not
\* created.
PushBlockPreflight ==
    [][call'.op = "push_block" =>
         LET next == Len(indexes.block)
             parent == IF call'.height = 0 THEN null_hash
                       ELSE indexes.block[call'.height]
         IN /\ (call'.ec = "empty_block") <=> (call'.txs = <<>>)
            /\ (call'.txs # <<>>) =>
                   ((call'.ec = "store_block_invalid_height")
                       <=> (call'.height # next))
            /\ (call'.txs # <<>> /\ call'.height = next) =>
                   ((call'.ec = "store_block_missing_parent")
                       <=> (call'.previous # parent))
            /\ (call'.ec \in {"empty_block", "store_block_invalid_height",
                               "store_block_missing_parent"})
                   => (~call'.began /\ Untouched)]_vars

\* A block without transactions was pushed at a height that is not the next
\* one and was answered with empty_block.
EmptyBlockAtWrongHeight ==
    /\ call.op = "push_block"
    /\ call.txs = <<>>
    /\ call.height # top["block"] + 1
    /\ call.ec = "empty_block"

\* A transaction with the hash is stored and the one stored last has an
\* unspent output: it is not confirmed, or an output of it is spent by no
\* input of a confirmed transaction.
UnspentDuplicate(hash) ==
    /\ lookup_map_find(Db, hash) # not_found
    /\ \/ ~is_confirmed(hash)
       \/ \E i \in 0..(Len(Tx(hash).outputs) - 1) :
             Point(hash, i) \notin SpentOutputs

\* C14: push(tx, forks) returns unspent_duplicate, and stores nothing,
\* exactly when a tx with the same hash is already stored and that stored tx
\* has at least one unspent output; otherwise it stores the tx with the
\* triple (forks, unconfirmed, pooled) and get(tx.hash) afterwards returns
\* that triple.
PushTxDuplicate ==
    [][call'.op = "push_tx" =>
         LET hash == call'.txs[1]
             found == lookup_map_find([transactions |-> transactions'], hash)
         IN /\ (call'.ec = "unspent_duplicate") <=> UnspentDuplicate(hash)
            /\ (call'.ec = "unspent_duplicate") => Untouched
            /\ (call'.ec # "unspent_duplicate") =>
                  /\ call'.ec = "success"
                  /\ Len(transactions') = Len(transactions) + 1
                  /\ found = Len(transactions')
                  /\ transactions'[found].height = call'.forks
                  /\ transactions'[found].position = unconfirmed
                  /\ transactions'[found].state = "pooled"]_vars

\* C15: pop(block, height) and pop(header, height) called with a height that
\* differs from the current top of the corresponding index, or on an empty
\* index, return store_block_invalid_height and change nothing.
PopPreflight ==
    [][call'.op \in {"pop_block", "pop_header"} =>
         LET actual == top[IF call'.op = "pop_block" THEN "block" ELSE "header"]
         IN (actual = -1 \/ actual # call'.height) =>
               (call'.ec = "store_block_invalid_height" /\ Untouched)]_vars

\* transaction_database::get(hash): the record stored last under the hash.
get(hash) == transactions[lookup_map_find(Db, hash)]

\* The transaction with the hash is confirmed at the height and position.
ConfirmedAt(hash, height, position) ==
    /\ lookup_map_find(Db, hash) # not_found
    /\ get(hash).state = "confirmed"
    /\ get(hash).height = height
    /\ get(hash).position = position

\* A reorganize has pushed two blocks, one of them by two buckets of which
\* one stored two transactions, and a transaction of it was promoted in the
\* slab it had before the call.
ParallelPushPromoted ==
    /\ call.op = "reorganize_block"
    /\ call.ec = "success"
    /\ Len(call.incoming) = 2
    /\ \E i \in 1..2 : \E p \in 1..3 :
          /\ Len(call.incoming[i]) = 3
          /\ lookup_map_find(Db, call.incoming[i][p]) <= call.slabs

\* C16: after push(block, height) returns success, get(hash of the tx at
\* position p) is confirmed at the pushed height and at position p, for a tx
\* that was pooled (promoted in place) or not yet stored; likewise for every
\* block the bucket-parallel push of a reorganize has stored.
PushedBlockConfirmed ==
    /\ (call.op = "push_block" /\ call.ec = "success") =>
           \A p \in 1..Len(call.txs) :
               ConfirmedAt(call.txs[p], call.height, p - 1)
    /\ (call.op = "reorganize_block" /\ call.ec \in {"success", "pending"}) =>
           \A i \in 1..Len(call.incoming) : \A p \in 1..Len(call.incoming[i]) :
               ConfirmedAt(call.incoming[i][p], call.height + i, p - 1)

\* C17: after pop(block, height) returns success, every tx of the popped
\* block has the triple (unverified, unconfirmed, pooled), every output that
\* an input of a popped tx spent has the spender height not_spent, and the
\* block-index top is height - 1.
PopBlockPools ==
    (call.op = "pop_block" /\ call.ec = "success") =>
        /\ top["block"] = call.height - 1
        /\ \A n \in 1..Len(call.txs) :
              /\ get(call.txs[n]).height = unverified
              /\ get(call.txs[n]).position = unconfirmed
              /\ get(call.txs[n]).state = "pooled"
              /\ \A k \in 1..Len(Tx(call.txs[n]).inputs) :
                    LET prevout == Tx(call.txs[n]).inputs[k].previous_output
                        output == transaction_result_output(get(prevout.hash),
                                                            prevout.index)
                    IN prevout # null_point =>
                          /\ output # <<>>
                          /\ output[2] = little_endian_4(not_spent)

\* C18: after a block reorganize completes with success for the fork point
\* at height f and n incoming blocks, the block-index top is f + n, incoming
\* block i is stored at height f + 1 + i, and the outgoing list holds the
\* blocks that were at the heights f + 1 .. old top in ascending order: it
\* is empty when no block was above the fork point.
ReorganizeResult ==
    (call.op = "reorganize_block" /\ call.ec = "success") =>
        /\ top["block"] = call.height + call.size
        /\ \A i \in 1..call.size :
              /\ indexes["block"][call.height + 1 + i] = call.incoming[i][1]
              /\ [p \in 1..Len(blocks[call.height + 1 + i]) |->
                     transactions[blocks[call.height + 1 + i][p]].hash]
                   = call.incoming[i]
        /\ call.outgoing = SubSeq(call.was, call.height + 2, Len(call.was))

\* C19: a block reorganize at the fork point f with incoming I, which left
\* the outgoing list O, followed by the reorganize at f with incoming O, ends
\* with success in the state before the first: the same block-index top and
\* the same block at each height.  A reorganize from the top leaves O empty
\* when it is given an empty list, so the second has no incoming block to
\* push and returns from the call that pops.
InverseReorganizeRestores ==
    [][(/\ call.op = "reorganize_block"
        /\ call.ec = "success"
        /\ call.size > 0
        /\ call.outgoing = <<>>
        /\ call'.op = "reorganize_block"
        /\ call'.n = call.n + 1
        /\ call'.height = call.height
        /\ call'.previous = call.previous
        /\ call'.size = Len(call.outgoing))
           => /\ call'.ec = "success"
              /\ indexes'["block"] = call.was
              /\ top'["block"] = Len(call.was) - 1]_vars

\* C20: in every state after create(genesis) and any pushes, pops and
\* reorganizes, get_output on an output point of the coinbase of the genesis
\* block returns false for every fork height, also when store has filled
\* the unspent-output cache.
GenesisNotSpendable ==
    top["block"] >= 0 =>
        \A index \in 0..1, fork_height \in ForkPoints :
            ~get_output(Point(indexes["block"][1], index), fork_height)

(***************************************************************************)
(* Properties of the transaction database.                                  *)
(***************************************************************************)
\* C21: on a cache miss, get_output(point, fork_height) with a finite
\* fork_height returns false unless the tx found is confirmed at a height at
\* or below fork_height: an indexed tx never satisfies such a query.
GetOutputRequiresConfirmed ==
    (/\ call.op = "get_output"
     /\ call.point # null_point
     /\ call.height # max_size_t
     /\ ~cache_populate(call.point, call.height)
     /\ lookup_map_find(Db, call.point.hash) # not_found
     /\ ~(/\ get(call.point.hash).state = "confirmed"
          /\ get(call.point.hash).height <= call.height))
        => call.ec = "false"

\* The offset of the spender height of the output at the index in the
\* outputs of a record, as the record format and the reader have it: after
\* the index_spend byte of the output.
spender_height_of(slab, index) ==
    skip_outputs(slab.data, 0, index, indexed_size + height_size + value_size)
        + indexed_size

\* C22: spend(point, spender_height) of a null point returns true and writes
\* nothing; of another point it returns false and writes nothing when the tx
\* is absent, not confirmed, above spender_height, or has no output at the
\* index; otherwise it returns true and rewrites only the spender height of
\* that output of the tx stored last under the hash.
SpendContract ==
    [][call'.op = "spend" =>
         LET point == call'.point
             slab == lookup_map_find(Db, point.hash)
             record == transactions[slab]
         IN IF point = null_point
            THEN call'.ec = "true" /\ transactions' = transactions
            ELSE IF \/ slab = not_found
                    \/ record.state # "confirmed"
                    \/ record.height > call'.height
                    \/ point.index >= record.outputs
            THEN call'.ec = "false" /\ transactions' = transactions
            ELSE /\ call'.ec = "true"
                 /\ transactions' =
                      [transactions EXCEPT ![slab].data =
                          write_4_bytes_little_endian(@,
                              spender_height_of(record, point.index),
                              call'.height)]]_vars

\* The cache holds an entry of the point.
Cached(entries, point) == \E i \in 1..Len(entries) : entries[i].point = point

\* C23 as stated: after spend(point, not_spent) the cache holds no entry of
\* the point, and after spend with another spender height it holds no entry
\* that reports the point as unspent.
SpendAlwaysEvicts ==
    [][(call'.op = "spend" /\ call'.point # null_point)
          => ~Cached(cache', call'.point)]_vars

\* C23 as the code has it: spend(point, spender_height) with a spender
\* height other than not_spent removes the point from the cache, whether or
\* not the spend then succeeds; spend(point, not_spent) leaves the cache as
\* it is.
SpendEvictsUnspendKeeps ==
    [][(call'.op = "spend" /\ call'.point # null_point) =>
          IF call'.height # not_spent
          THEN cache' = without(cache, call'.point)
               /\ ~Cached(cache', call'.point)
          ELSE cache' = cache]_vars

\* An unspend returned true and the cache still holds the point; a spend
\* would have removed it.
UnspendKeptEntry ==
    /\ call.op = "spend"
    /\ call.height = not_spent
    /\ call.ec = "true"
    /\ Cached(cache, call.point)

\* The spender height the reader finds in the output marks it spent at or
\* below the fork height.
SpentAtOrBelow(output, fork_height) ==
    \E height \in CallHeights :
        height <= fork_height /\ output[2] = little_endian_4(height)

\* C24: between the completed pushes, pops and reorganizes of the writer, a
\* point the cache answers for a fork height is an output of a transaction
\* that is stored as confirmed, and whose spender height does not mark it
\* spent at or below the fork height.
CacheAgreesWithRecords ==
    write_mutex = 0 =>
        \A i \in 1..Len(cache), fork_height \in ForkPoints :
            cache_populate(cache[i].point, fork_height) =>
                LET slab == lookup_map_find(Db, cache[i].point.hash)
                    output == transaction_result_output(transactions[slab],
                                                        cache[i].point.index)
                IN /\ slab # not_found
                   /\ transactions[slab].state = "confirmed"
                   /\ output # <<>> => ~SpentAtOrBelow(output, fork_height)

\* The slabs find returns: the records stored last under their hashes.
Found == {slab \in 1..Len(transactions) :
             lookup_map_find(Db, transactions[slab].hash) = slab}

\* C25: between the completed pushes, pops and reorganizes of the writer,
\* each input of a transaction that is confirmed at a height, other than a
\* null input, has a previous output whose spender height is that height.
InputsSpentAtHeight ==
    write_mutex = 0 =>
        \A slab \in Found :
            transactions[slab].state = "confirmed" =>
                \A i \in 1..Len(Tx(transactions[slab].hash).inputs) :
                    LET point == Tx(transactions[slab].hash).inputs[i].previous_output
                        previous == lookup_map_find(Db, point.hash)
                        output == transaction_result_output(
                                      transactions[previous], point.index)
                    IN point # null_point =>
                           /\ previous # not_found
                           /\ output # <<>>
                           /\ output[2] = little_endian_4(transactions[slab].height)

\* A transaction confirmed at or below the top of the block index has an
\* input that spends the point.
SpentByConfirmed(point) ==
    \E slab \in Found :
        /\ transactions[slab].state = "confirmed"
        /\ transactions[slab].height <= top["block"]
        /\ \E i \in 1..Len(Tx(transactions[slab].hash).inputs) :
               Tx(transactions[slab].hash).inputs[i].previous_output = point

\* The spender height of each output is not_spent exactly when no
\* transaction confirmed at or below the top of the block index has an input
\* that spends the output.
UnspentAgrees ==
    \A slab \in Found :
        \A index \in 0..(transactions[slab].outputs - 1) :
            LET output == transaction_result_output(transactions[slab], index)
            IN (output # <<>> /\ output[2] = little_endian_4(not_spent))
                   <=> ~SpentByConfirmed(Point(transactions[slab].hash, index))

\* C26: a push, pop or reorganize of blocks that completes with success in
\* a state where the spender height of every output is not_spent exactly
\* when no transaction confirmed at or below the top of the block index
\* spends the output, leaves a state where that is so again.
UnspentIffNoConfirmedSpender ==
    [][(/\ write_mutex = 0
        /\ UnspentAgrees
        /\ call'.op \in {"push_block", "pop_block", "reorganize_block"}
        /\ call'.ec = "success"
        /\ write_mutex' = 0) => UnspentAgrees']_vars

\* The spender height transaction_result::output(index) reads for the
\* output of the slab: the 4 bytes after index_spend, where the walk over
\* the outputs before it ends; the empty tuple when the walk leaves the
\* record.
spender_height_read(slab, index) ==
    LET pos == skip_outputs(slab.data, 0, index,
                            indexed_size + height_size + value_size)
    IN IF index >= slab.outputs THEN <<>>
       ELSE IF pos = Lost \/ pos + indexed_size + height_size > Len(slab.data)
       THEN <<>>
       ELSE SubSeq(slab.data, pos + indexed_size + 1,
                   pos + indexed_size + height_size)

\* C28: for each unspent output point of a confirmed transaction and each
\* height at or above the height of the transaction, spend(point, height)
\* followed by spend(point, not_spent) both return true and leave the
\* spender height of every output of the record as a reader found it
\* before the two calls.
SpendThenUnspendRestores ==
    \A point \in Points \ {null_point}, height \in 1..MaxTop :
        LET slab == lookup_map_find(Db, point.hash)
            record == transactions[slab]
            first == transaction_database_spend(Db, point, height)
            second == transaction_database_spend(first, point, not_spent)
        IN (/\ slab # not_found
            /\ record.state = "confirmed"
            /\ record.height <= height
            /\ point.index < record.outputs
            /\ spender_height_read(record, point.index)
                   = little_endian_4(not_spent))
           => /\ second.ok
              /\ ~second.lost
              /\ \A index \in 0..(record.outputs - 1) :
                     spender_height_read(second.transactions[slab], index)
                         = spender_height_read(record, index)

(***************************************************************************)
(* Properties of a push seen by its readers.                                *)
(***************************************************************************)
\* C27: in every state, those a reader finds inside a push of a block
\* included, each record that is stored as confirmed has a height at or
\* below the top of the block index, and a position below the number of
\* transactions of the block the index holds at that height.
ConfirmedWithinBlock ==
    \A slab \in Found :
        transactions[slab].state = "confirmed" =>
            /\ transactions[slab].height <= top["block"]
            /\ transactions[slab].position
                   < Len(blocks[transactions[slab].height + 1])

\* The same whenever no write is in progress, the flush lock being absent.
ConfirmedWithinBlockAtRest == ~flush_lock => ConfirmedWithinBlock

(***************************************************************************)
(* Properties of the parallel push of a block reorganize.                   *)
(***************************************************************************)
\* std::min(threads, txs)
MinBuckets(txs) == IF DispatchThreads < txs THEN DispatchThreads ELSE txs

\* Thread t is pushing the incoming blocks of a block reorganize.
Pushing(t) ==
    /\ thread[t].op = "reorganize_block"
    /\ thread[t].pc \in {"do_push", "join"}

\* The buckets of the block thread t pushes have stored each position
\* p = b, b + B, ... of the finished bucket b once, by that bucket, and no
\* other position.
StoredByFinished(t) ==
    \A p \in 0..(thread[t].txs - 1) :
        thread[t].stored[p + 1] =
            IF p % MinBuckets(thread[t].txs) \in sync[t].pending THEN <<>>
            ELSE <<p % MinBuckets(thread[t].txs)>>

\* C29: in the push of a block reorganize a block of n transactions has
\* B = min(threads, n) buckets, and the task of bucket b stores exactly the
\* positions b, b + B, b + 2B, ... below n, so that once all tasks have
\* finished each position has been stored once; the block is stored, and
\* the top of the block index raised, only in the step in which the last of
\* the B tasks finishes with success; and the push of the incoming block of
\* index i starts or runs only when the i blocks before it are stored.
BucketsThenStoreThenNext ==
    /\ [](\A t \in Threads :
            /\ (thread[t].op = "reorganize_block" /\ thread[t].pc = "join") =>
                   /\ sync[t].clearance = MinBuckets(thread[t].txs)
                   /\ sync[t].pending \subseteq 0..(sync[t].clearance - 1)
                   /\ sync[t].counter + Cardinality(sync[t].pending)
                          = sync[t].clearance
                   /\ StoredByFinished(t)
            /\ Pushing(t) =>
                   top["block"] = thread[t].fork + thread[t].index)
    /\ [][\A t \in Threads :
            (Pushing(t) /\ top'["block"] # top["block"]) =>
                /\ thread[t].pc = "join"
                /\ Cardinality(sync[t].pending) = 1
                /\ sync[t].counter + 1 = sync[t].clearance
                /\ thread'[t].ec = "success"
                /\ thread'[t].index = thread[t].index + 1
                /\ top'["block"] = thread[t].height
                /\ \A p \in 0..(thread[t].txs - 1) :
                       thread'[t].stored[p + 1]
                           = <<p % MinBuckets(thread[t].txs)>>]_vars

\* A block of three transactions has been stored by the tasks of two
\* buckets, and the push of the next incoming block has started.
NextBlockAfterBuckets ==
    \E t \in Threads :
        /\ thread[t].op = "reorganize_block"
        /\ thread[t].pc = "do_push"
        /\ thread[t].index = 1
        /\ thread[t].txs = 3
        /\ thread[t].stored = <<<<0>>, <<1>>, <<0>>>>
        /\ top["block"] = thread[t].fork + 1

(***************************************************************************)
(* Properties of commit.                                                    *)
(***************************************************************************)
\* The sub-databases in the order of the claim.
CommitSequence ==
    IF index_addresses
    THEN <<"spends", "history", "stealth", "transactions", "blocks">>
    ELSE <<"transactions", "blocks">>

\* C30: in the critical section of a push of a block the sub-databases are
\* committed in the order spends, history, stealth, transactions, blocks,
\* the first three only with address indexing; the first commit comes
\* after every transaction of the block and the block itself are stored,
\* no sub-database is written once it has begun, and end_write comes after
\* the last commit.
CommitAfterWritesBeforeEnd ==
    /\ [](call.op = "push_block" =>
            /\ Len(call.committed) <= Len(CommitSequence)
            /\ call.committed = SubSeq(CommitSequence, 1, Len(call.committed))
            /\ call.committed # <<>> =>
                   /\ call.size = Len(call.block)
                   /\ top["block"] = call.height
                   /\ Len(blocks[call.height + 1]) = Len(call.block)
            /\ (call.committed # <<>> /\ call.ec = "pending") =>
                   flush_lock /\ write_mutex # 0
            /\ call.ec = "success" =>
                   call.committed = CommitSequence /\ ~flush_lock)
    /\ [][(call.op = "push_block" /\ call.committed # <<>> /\ call'.n = call.n)
             => UNCHANGED <<transactions, blocks, spends, history, indexes>>]_vars

\* With address indexing, the five sub-databases are committed and
\* end_write has not been called yet.
CommittedBeforeEndWrite ==
    /\ index_addresses
    /\ call.op = "push_block"
    /\ call.ec = "pending"
    /\ call.committed = <<"spends", "history", "stealth", "transactions", "blocks">>
    /\ flush_lock

(***************************************************************************)
(* Properties of create, open and close.                                   *)
(***************************************************************************)
\* C31: closed_ is true after construction, open clears it and close sets
\* it, and after any sequence of create, open and close calls the
\* sub-databases and the store lock are released exactly when closed_ is
\* true.
ReleasedIffClosed ==
    NoCaller => (base.closed_ <=> (base.opened = {} /\ ~base.lock))

\* A close() that finds closed_ set returns true and closes nothing.
CloseWhenClosed ==
    [][\A t \in Threads :
          (base.closed_ /\ base.caller[t] = "idle" /\ base'.last = "close"
             /\ base'.result[t] # base.result[t])
          => /\ base'.result[t] = "true"
             /\ base'.opened = base.opened
             /\ base'.closes = base.closes
             /\ base'.lock = base.lock]_vars

\* C32: close() is thread safe: when threads call close() concurrently on
\* an open data_base, each sub-database and the store are closed at most
\* once in total.
ClosedAtMostOnce == \A d \in Closables : base.closes[d] <= 1

(***************************************************************************)
(* Properties of mmfile::reserve.                                          *)
(***************************************************************************)
\* The last call was reserve(n) with n above the size of the file, and it
\* returned true.
Grew == file.returned = "true" /\ file.reserved > file.before

\* reserve(n) with n at or below size() returns true and leaves the size and
\* the mapping as they were.
ReserveWithinSize ==
    [][(file'.reserved <= file.size_ /\ file' # file)
        => /\ file'.returned = "true"
           /\ file'.size_ = file.size_
           /\ file'.length = file.length
           /\ file'.data_ = file.data_]_vars

\* C33, as stated: reserve(n) with n above size() resizes the file to
\* ceil(n * 3 / 2) bytes, and after a true return size() >= n.
ReserveGrowsByCeiling ==
    Grew => /\ file.size_ = (file.reserved * 3 + 1) \div 2
            /\ file.size_ >= file.reserved

\* C33: reserve(n) with n above size() resizes the file to n * 3 / 2 bytes,
\* the product taken in size_t and the quotient rounded down, and after a
\* true return size() >= n when n * 3 is within size_t.
ReserveGrowsByFloor ==
    Grew => /\ file.size_ = ((file.reserved * 3) % (2^SizeBits)) \div 2
            /\ file.length = file.size_
            /\ file.reserved * 3 <= max_file_size => file.size_ >= file.reserved

\* A reserve of an odd size above the size of the file has returned true.
GrewToOddHalf == Grew /\ file.reserved % 2 = 1 /\ file.reserved * 3 <= max_file_size

(***************************************************************************)
(* Properties of the end of a write.                                       *)
(***************************************************************************)
\* C34: in every top-level write, the block reorganize included, end_write
\* happens before write_mutex is released: a thread between its begin_write
\* and the end_write it is to call holds the mutex, so no other writer calls begin_write
\* before the end_write of the previous one.
EndWriteBeforeRelease ==
    \A t \in Threads :
        (writing[t] /\ thread[t].ec = "success") => write_mutex = t

\* An end_write removes the sentinel of no other write in progress.
EndWriteOfOwnSentinel ==
    [][(flush_lock /\ ~flush_lock') => \A t \in Threads : ~writing'[t]]_vars

(***************************************************************************)
(* Properties of the address indexes under push and pop.                   *)
(***************************************************************************)
\* The spend rows and the history rows of every address are those the run
\* found.
IndexesRestored ==
    spends = chain.before.spends /\ history = chain.before.history

PopRestoresIndexes ==
    (index_addresses /\ chain.phase = "pop"
        /\ Len(blocks) = Len(chain.before.blocks)) => IndexesRestored

PushedByBuckets ==
    /\ call.op = "reorganize_block" /\ call.ec = "pending" /\ ~call.waiting
    /\ call'.op = "reorganize_block" /\ call'.block # <<>>
    /\ call'.ec \in {"pending", "success", "operation_failed"}

\* The triple and the output spender heights of each transaction record.
RecordsOf(slabs) ==
    {[hash |-> slabs[i].hash, height |-> slabs[i].height,
      position |-> slabs[i].position, state |-> slabs[i].state,
      spender_heights |-> spender_heights(slabs[i])] : i \in DOMAIN slabs}

\* push_transactions(block, height) of the block of that step, in order.
InOrder ==
    push_transactions(Db, call'.block, call.height + 1 + Len(call.incoming), 0, 1)

\* C37: for every valid block, one in which a transaction spends an output
\* of an earlier transaction of the block included, the push by buckets of
\* a reorganize succeeds whatever the order of the bucket tasks, and leaves
\* the transaction records, triples and spender heights, that the push of
\* the block in order leaves.
BucketsAsInOrder ==
    [][(PushedByBuckets /\ InOrder.db.ok)
        => /\ call'.ec # "operation_failed"
           /\ RecordsOf(transactions') = RecordsOf(InOrder.db.transactions)]_vars

\* The pushes by buckets that succeed leave the records of the push in order.
BucketsThatSucceedAsInOrder ==
    [][(PushedByBuckets /\ InOrder.db.ok /\ call'.ec # "operation_failed")
        => RecordsOf(transactions') = RecordsOf(InOrder.db.transactions)]_vars

(***************************************************************************)
(* Properties of the writer of a spender height against its reader.        *)
(***************************************************************************)
\* C38: the writer and the reader find output i of a record at the same
\* place: after spend(p, h) returns true, the output p.index of the record
\* reads with the spender height h, every other output of the record reads
\* with the value, script and spender height it had, and the inputs are
\* found where they were.
SpendSeenByReader ==
    [][(call'.op = "spend" /\ call'.ec = "true" /\ call'.point # null_point)
        => LET point == call'.point
               slab == lookup_map_find(Db, point.hash)
               before == transactions[slab]
               after == transactions'[slab]
           IN /\ transaction_result_output(after, point.index) # <<>>
              /\ transaction_result_output(after, point.index)[2]
                    = little_endian_4(call'.height)
              /\ \A index \in 0..(before.outputs - 1) :
                    index # point.index =>
                        transaction_result_output(after, index)
                          = transaction_result_output(before, index)
              /\ Intact(after)]_vars

(***************************************************************************)
(* Properties of unlink of a key that has no row.                          *)
(***************************************************************************)
\* C39: unlink(key) on a slab or record hash table returns false and changes
\* no bucket head and no next link when no row of the key is in the chain of
\* its bucket, the empty bucket included, and it reads no row at the empty
\* sentinel.
UnlinkOfAbsentKey ==
    [][\A w \in Workers :
          (/\ worker[w].op = "idle" /\ worker'[w].op = "idle"
           /\ worker'[w] # worker[w] \/ wild' # wild
           /\ worker'[w].last = "unlink"
           /\ ~worker'[w].present)
          => /\ ~worker'[w].result
             /\ header' = header
             /\ rows' = rows
             /\ ~wild']_vars

\* unlink of a key that has no row in a bucket that holds a row returns
\* false and writes nothing.
UnlinkOfAbsentKeyInChain ==
    [][\A w \in Workers :
          (/\ worker[w].op = "idle" /\ worker'[w].op = "idle"
           /\ worker'[w] # worker[w]
           /\ worker'[w].last = "unlink"
           /\ ~worker'[w].present
           /\ ~wild')
          => /\ ~worker'[w].result
             /\ header' = header
             /\ rows' = rows]_vars

(***************************************************************************)
(* Properties of the header reorganize.                                    *)
(***************************************************************************)
\* The step in which the header reorganize of thread t returns to its caller.
HeaderReorganizeReturns(t) ==
    thread[t].op = "reorganize_header" /\ thread'[t].op = "idle"

\* C40: the header reorganize invokes the handler exactly once on every
\* path, in the step it returns and not before: with operation_failed when
\* fork height plus incoming count overflows, when the fork point fails
\* verify, or when a pop or a push failed; with success only when every
\* incoming header has been pushed, header i at height fork + 1 + i, the
\* last of them last.
HeaderHandlerOnce ==
    [][\A t \in Threads :
          /\ (thread[t].op = "reorganize_header" /\ ~HeaderReorganizeReturns(t))
                => handled'[t] = handled[t]
          /\ HeaderReorganizeReturns(t)
                => /\ handled'[t] = handled[t] + 1
                   /\ thread'[t].ec \in {"success", "operation_failed"}
                   /\ thread'[t].ec = "success"
                        => /\ thread[t].pc = "finish"
                           /\ thread[t].incoming > 0
                                => /\ thread[t].index + 1 = thread[t].incoming
                                   /\ thread[t].height
                                        = thread[t].fork + thread[t].incoming]_vars

\* The header reorganizes whose fork point is at or below the header top
\* invoke the handler once, in the step they return, with the code stated.
HeaderHandlerOnceBelowTop ==
    [][\A t \in Threads :
          /\ (thread[t].op = "reorganize_header" /\ ~HeaderReorganizeReturns(t))
                => handled'[t] = handled[t]
          /\ (HeaderReorganizeReturns(t) /\ thread'[t].ec # "length_error")
                => /\ handled'[t] = handled[t] + 1
                   /\ thread'[t].ec \in {"success", "operation_failed"}
                   /\ thread'[t].ec = "success"
                        => /\ thread[t].pc = "finish"
                           /\ thread[t].incoming > 0
                                => /\ thread[t].index + 1 = thread[t].incoming
                                   /\ thread[t].height
                                        = thread[t].fork + thread[t].incoming]_vars

====
